---- MODULE Spec2Model ----
(***************************************************************************)
(* Risk-period extraction of the injury-risk screening routines            *)
(*   risk_identification/posture_alignment_risk.py  (extract_motion_risk)  *)
(*   risk_identification/muscle_forces_activations_risk.py                 *)
(*       (calculate_injury_risks, summarize_injury_risks,                  *)
(*        generate_risk_report)                                            *)
(* and, each as a state machine of its own with its own specification,     *)
(*   risk_identification/run_analysis_pipeline.py                          *)
(*       (run_all_risk_assessments, remove_non_serializable)               *)
(*   risk_identification/joint_angle_risk.py, joint_force_torque_risk.py,  *)
(*   kinematic_data_risk.py  (the routines that report from a peak)        *)
(*   motion_data_computing/inverse_kinematic/run_inverse_kinematic.py      *)
(*   motion_data_computing/setup_generation/generate_grf.py                *)
(*   motion/convert_phalp_to_npz.py                                        *)
(*       (extract_single_person_data, convert_to_npz_format)               *)
(*                                                                         *)
(* Numbers.  Every physical quantity (seconds, degrees, activation, N) is  *)
(* an integer number of thousandths of its unit.  The text the routines    *)
(* put in a risk entry is rendered with two decimals (f'{x:.2f}'): Fmt2    *)
(* gives that rendering as an integer number of hundredths.  The inputs    *)
(* are chosen so that no rendered quantity lies on a rounding tie.         *)
(* Indices are 0-based as in the source; Seq element k is At(s, k).        *)
(***************************************************************************)
EXTENDS Integers, Sequences, FiniteSets, TLC

\* ---------------------------------------------------------------- bounds
MaxLen == 4          \* longest generated series
HalfDt == 8          \* half the regular sampling interval (ms)
HalfGap == 1500      \* half the extra time at a dropped-sample position (ms)
CallLen == 3         \* longest table of a call that is repeated
ObjLen == 3          \* longest list handed to remove_non_serializable
GrfLen == 4          \* most rows of an IK table handed to generate_complete_grf
PhalpLen == 2        \* most frames of a PHALP tracking result
PeakLen == 4         \* longest series handed to the peak-reporting routines

\* ------------------------------------------------------- program constants
lean_threshold == 15000        \* 15 degrees
pronation_threshold == 10000   \* 10 degrees
tilt_threshold == 15000        \* 15 degrees
valgus_threshold == 10000      \* 10 degrees inward
varus_threshold == -8000       \* -8 degrees outward
activation_threshold == 800    \* 0.8 activation
hq_threshold == 600            \* 0.6 H:Q ratio
glute_threshold == 300         \* 0.3 activation
rectus_threshold == 500        \* 0.5 activation
NaN == -1000000000             \* np.nan: compares false with everything

\* ------------------------------------------------------------ array helpers
At(s, k) == s[k + 1]
Last0(s) == s[Len(s)]
Abs(x) == IF x < 0 THEN -x ELSE x
Range0(n) == [k \in 1..n |-> k - 1]

RECURSIVE SeqMax(_)
SeqMax(s) == IF Len(s) = 1 THEN s[1]
             ELSE LET m == SeqMax(Tail(s)) IN IF s[1] > m THEN s[1] ELSE m

RECURSIVE SeqMin(_)
SeqMin(s) == IF Len(s) = 1 THEN s[1]
             ELSE LET m == SeqMin(Tail(s)) IN IF s[1] < m THEN s[1] ELSE m

RECURSIVE SeqSum(_)
SeqSum(s) == IF s = <<>> THEN 0 ELSE s[1] + SeqSum(Tail(s))

\* x[period]: fancy indexing of an array by a list of indices
Take(x, period) == [k \in 1..Len(period) |-> At(x, period[k])]
AbsSeq(s) == [k \in 1..Len(s) |-> Abs(s[k])]

\* f'{x:.2f}': thousandths rendered to hundredths, round to nearest
Fmt2(x) == IF x >= 0 THEN (x + 5) \div 10 ELSE -((5 - x) \div 10)

\* f'{x:.1f}': thousandths rendered to tenths, round to nearest
Fmt1(x) == IF x >= 0 THEN (x + 50) \div 100 ELSE -((50 - x) \div 100)


\* ------------------------------------------------------------ column labels
\* 'shoulder' stands for the six shoulder marker columns; its series is the
\* trunk_lean angle they yield (np.degrees(np.arctan2(...))).
HamLabels == {"bflh_r"}
QuadLabels == {"vaslat_r", "recfem_r"}
GastrocLabels == {"gasmed_r"}
GluteLabels == {"glmed1_r"}
RectusLabels == {"recfem_r"}
target_muscles == <<"rect_fem_r", "rect_fem_l", "glut_max_r", "glut_max_l",
                    "gaslat_r", "gaslat_l", "gasmed_r", "gasmed_l">>

\* -------------------------------------------------------------- pass tables
\* One pass = one np.where + grouping loop + report loop of the source.
\* block: the try block (extract_motion_risk) the pass lies in.
\* plot:  the pass is followed by the plot/metrics code of its section.
MotionPass(name, col, req, blk, rule, thr, peak, plt, src) ==
  [name |-> name, column |-> col, requires |-> req, block |-> blk,
   rule |-> rule, threshold |-> thr, peak |-> peak, window |-> "all",
   plot |-> plt, src |-> src]

MusclePass(k) ==
  MotionPass("Overactivation", target_muscles[k], {target_muscles[k]}, 5,
             "gt", activation_threshold, "max", "if_risky", "so")

MotionPasses ==
  << MotionPass("Excessive Trunk Lean", "shoulder", {}, 1,
                "abs", lean_threshold, "absmax", "always", "ik"),
     MotionPass("Right Foot Overpronation", "mtp_angle_r", {"mtp_angle_r"}, 2,
                "abs", pronation_threshold, "absmax", "always", "ik"),
     MotionPass("Left Foot Overpronation", "mtp_angle_l", {"mtp_angle_l"}, 2,
                "abs", pronation_threshold, "absmax", "always", "ik"),
     MotionPass("Pelvic Tilt", "pelvis_tilt", {"pelvis_tilt"}, 3,
                "abs", tilt_threshold, "absmax", "always", "ik"),
     MotionPass("Right Knee Valgus", "knee_valgus_r",
                {"knee_valgus_r", "knee_valgus_l"}, 4,
                "gt", valgus_threshold, "max", "never", "ik"),
     MotionPass("Right Knee Varus", "knee_valgus_r",
                {"knee_valgus_r", "knee_valgus_l"}, 4,
                "lt", varus_threshold, "min", "always", "ik"),
     MotionPass("Left Knee Valgus", "knee_valgus_l",
                {"knee_valgus_r", "knee_valgus_l"}, 4,
                "gt", valgus_threshold, "max", "never", "ik"),
     MotionPass("Left Knee Varus", "knee_valgus_l",
                {"knee_valgus_r", "knee_valgus_l"}, 4,
                "lt", varus_threshold, "min", "always", "ik") >>
  \o [k \in 1..Len(target_muscles) |-> MusclePass(k)]

InjuryPass(name, rule, thr, peak, win, src) ==
  [name |-> name, column |-> src, requires |-> {}, block |-> 0,
   rule |-> rule, threshold |-> thr, peak |-> peak, window |-> win,
   plot |-> "never", src |-> src]

\* gastroc_threshold = 3 * body_weight (N), body_weight in kg
InjuryPasses(body_weight) ==
  << InjuryPass("ACL Injury Risk (Hamstring-Quadriceps Imbalance)",
                "lt", hq_threshold, "min", "all", "hq"),
     InjuryPass("Achilles Tendon Overload Risk",
                "gt", 3 * body_weight * 1000, "max", "all", "gastroc"),
     InjuryPass("Hip Instability / Knee Valgus Risk",
                "lt", glute_threshold, "min", "first_half", "glute"),
     InjuryPass("Hamstring Strain Risk",
                "gt", rectus_threshold, "max", "last_quarter", "rectus") >>

\* -------------------------------------------------------------------- state
VARIABLES
  routine,           \* "extract_motion_risk" | "generate_risk_report"
  ik_table,          \* IK table: column label -> series
  activation_table,  \* SO activations (activations_df): label -> series
  force_table,       \* SO forces (forces_df): label -> series
  time,              \* time array the periods are reported against
  so_given,          \* so_activation_file and so_force_file were passed
  body_weight,       \* kg
  pc,                \* position in the routine
  pass,              \* index of the current pass in Passes
  vals,              \* series thresholded by the current pass
  risky_indices,     \* np.where(mask)[0] of the current pass
  risk_periods,      \* closed periods of the current pass
  current_period,    \* period being extended
  i,                 \* grouping loop index
  p,                 \* report loop index
  risks,             \* results['risks'] / risk_metrics
  summary,           \* results['summary'] / summarize_injury_risks(...)
  raised,            \* exception that reached the caller ("" = none)
  call,              \* the caller's record of its earlier calls of the routine
  obj,               \* remove_non_serializable: the object and the position in it
  pipe,              \* run_all_risk_assessments: stage, results, result file
  ik_run,            \* run_inverse_kinematics: files, engine, returned value
  grf,               \* generate_complete_grf: contact mask, loop index, rows
  peaks,             \* the three routines that report from the peak of a series
  phalp              \* PHALP conversion: tracking data, extracted track, npz data

vars == <<routine, ik_table, activation_table, force_table, time, so_given,
          body_weight, pc, pass, vals, risky_indices, risk_periods,
          current_period, i, p, risks, summary, raised,
          call, obj, pipe, ik_run, grf, peaks, phalp>>

\* state of the routines other than the one that is running
others == <<call, obj, pipe, ik_run, grf, peaks, phalp>>

\* state of the risk routines and of their caller
risk_vars == <<routine, ik_table, activation_table, force_table, time,
               so_given, body_weight, pc, pass, vals, risky_indices,
               risk_periods, current_period, i, p, risks, summary, raised, call>>

inputs == <<routine, ik_table, activation_table, force_table, time, so_given,
            body_weight>>

Passes == IF routine = "extract_motion_risk" THEN MotionPasses
          ELSE InjuryPasses(body_weight)

\* ------------------------------------------------------- series of a pass
Cols(table, labels) == DOMAIN table \cap labels

RECURSIVE RowSum(_, _, _)
RowSum(table, labels, k) ==
  IF labels = {} THEN 0
  ELSE LET l == CHOOSE x \in labels : TRUE
       IN table[l][k] + RowSum(table, labels \ {l}, k)

\* df[cols].mean(axis=1)
RowMean(table, labels) ==
  [k \in 1..Len(table[CHOOSE l \in labels : TRUE]) |->
     RowSum(table, labels, k) \div Cardinality(labels)]

\* quad_activation.replace(0, np.nan); ham_activation / quad_activation
\* (activations are non-negative; the quotient is cut to thousandths, which
\*  keeps every comparison with a threshold in thousandths exact)
Ratio(ham, quad) ==
  [k \in 1..Len(ham) |-> IF quad[k] = 0 THEN NaN
                         ELSE (ham[k] * 1000) \div quad[k]]

PassSeries(ps) ==
  CASE ps.src = "ik"      -> ik_table[ps.column]
    [] ps.src = "so"      -> activation_table[ps.column]
    [] ps.src = "hq"      -> Ratio(RowMean(activation_table, Cols(activation_table, HamLabels)),
                                   RowMean(activation_table, Cols(activation_table, QuadLabels)))
    [] ps.src = "gastroc" -> RowMean(force_table, Cols(force_table, GastrocLabels))
    [] ps.src = "glute"   -> RowMean(activation_table, Cols(activation_table, GluteLabels))
    [] ps.src = "rectus"  -> RowMean(activation_table, Cols(activation_table, RectusLabels))

\* the guard in front of a pass (column present / muscle group present)
Runnable(ps) ==
  CASE ps.src = "ik"      -> ps.requires \subseteq DOMAIN ik_table
    [] ps.src = "so"      -> so_given /\ ps.column \in DOMAIN activation_table
    [] ps.src = "hq"      -> /\ Cols(activation_table, HamLabels) # {}
                             /\ Cols(activation_table, QuadLabels) # {}
    [] ps.src = "gastroc" -> Cols(force_table, GastrocLabels) # {}
    [] ps.src = "glute"   -> Cols(activation_table, GluteLabels) # {}
    [] ps.src = "rectus"  -> Cols(activation_table, RectusLabels) # {}

\* first pass after k (in a block above blk) whose guard holds
NextRunnable(k, blk) ==
  LET cand == {j \in (k + 1)..Len(Passes) :
                 Passes[j].block > blk /\ Runnable(Passes[j])}
  IN IF cand = {} THEN Len(Passes) + 1
     ELSE CHOOSE j \in cand : \A j2 \in cand : j <= j2

\* ------------------------------------------------------------ risk mask
Violates(rule, thr, v) ==
  /\ v # NaN
  /\ CASE rule = "gt"  -> v > thr
       [] rule = "lt"  -> v < thr
       [] rule = "abs" -> Abs(v) > thr

\* variant: every rule looks at the whole series
WindowWhole(win, n, m) == Range0(m)

\* indices the pass looks at (stance_indices, late_swing_indices, or all)
Window(win, n, m) ==
  CASE win = "all"          -> Range0(m)
    [] win = "first_half"   -> Range0(n \div 2)
    [] win = "last_quarter" -> [k \in 1..(n - (3 * n) \div 4) |-> (3 * n) \div 4 + k - 1]

\* np.where(mask)[0]: the indices of w whose sample violates, ascending
RECURSIVE Where(_, _, _, _)
Where(rule, thr, x, w) ==
  IF w = <<>> THEN <<>>
  ELSE (IF Violates(rule, thr, At(x, w[1])) THEN <<w[1]>> ELSE <<>>)
       \o Where(rule, thr, x, Tail(w))

\* variant: the magnitude rule forgets np.abs
PeakValueNoAbs(peak, x, period) ==
  CASE peak = "max"    -> SeqMax(Take(x, period))
    [] peak = "min"    -> SeqMin(Take(x, period))
    [] peak = "absmax" -> SeqMax(Take(x, period))

\* variant: the value at the start of the period instead of its extremum
PeakValueFirst(peak, x, period) ==
  CASE peak = "max"    -> At(x, At(period, 0))
    [] peak = "min"    -> At(x, At(period, 0))
    [] peak = "absmax" -> Abs(At(x, At(period, 0)))

\* extremum reported for a period
PeakValue(peak, x, period) ==
  CASE peak = "max"    -> SeqMax(Take(x, period))
    [] peak = "min"    -> SeqMin(Take(x, period))
    [] peak = "absmax" -> SeqMax(AbsSeq(Take(x, period)))

\* ------------------------------------------------------------------ inputs
\* strictly increasing time stamps (even numbers of ms); g > 0 puts a long
\* gap after sample g
TimeArray(n, g) ==
  [k \in 1..n |-> 2 * HalfDt * (k - 1) + (IF g > 0 /\ k > g THEN 2 * HalfGap ELSE 0)]
TimeArrays(n) == {TimeArray(n, g) : g \in 0..(IF n > 1 THEN n - 1 ELSE 0)}

SeqsUpTo(S, n) == UNION {[1..k -> S] : k \in 0..n}
Negated(s) == [k \in 1..Len(s) |-> -s[k]]
Constant(n, v) == [k \in 1..n |-> v]
NoTable == [l \in {} |-> <<>>]

\* lengths of the time array tried with a series of m samples that comes
\* from another file than the time array
OtherLens(m) == {n \in {m - 1, m, m + 1} : n >= 0 /\ n <= MaxLen}

AngleVals15 == {-17004, 2000, 16000}
AngleVals10 == {-12004, 3000, 11000}
KneeVals == {-9004, 11000, 12000}
ActivationVals == {500, 900, 954}
HQPairs == {<<200, 1000>>, <<504, 1000>>, <<900, 1000>>, <<500, 0>>}
ForceVals == {100000, 220000, 250004}
GluteVals == {104, 200, 400}
RectusVals == {400, 600, 704}

\* a series with a time array of the same table / of another table
SameTable(S) == UNION {{<<s, t>> : t \in TimeArrays(Len(s))} : s \in S}
OtherTable(S) ==
  UNION {{<<s, t>> : t \in UNION {TimeArrays(n) : n \in OtherLens(Len(s))}} : s \in S}

Input(r, ik, act, frc, t, so, bw) ==
  [routine |-> r, ik_table |-> ik, activation_table |-> act,
   force_table |-> frc, time |-> t, so_given |-> so, body_weight |-> bw]

MotionInput(ik, t) == Input("extract_motion_risk", ik, NoTable, NoTable, t, FALSE, 70)

MotionInputs ==
  {MotionInput("shoulder" :> st[1], st[2]) :
      st \in SameTable(SeqsUpTo(AngleVals15, MaxLen))}
  \cup {MotionInput(l :> st[1], st[2]) : l \in {"mtp_angle_r", "mtp_angle_l"},
      st \in SameTable(SeqsUpTo(AngleVals10, MaxLen))}
  \cup {MotionInput("pelvis_tilt" :> st[1], st[2]) :
      st \in SameTable(SeqsUpTo(AngleVals15, MaxLen))}
  \cup {MotionInput(("knee_valgus_r" :> st[1]) @@ ("knee_valgus_l" :> Negated(st[1])), st[2]) :
      st \in SameTable(SeqsUpTo(KneeVals, MaxLen))}

\* the SO tables come from other files than the IK table that gives time
MuscleInputs ==
  {Input("extract_motion_risk", NoTable, "gasmed_r" :> st[1],
         "gasmed_r" :> Constant(Len(st[1]), 100000), st[2], TRUE, 70) :
      st \in OtherTable(SeqsUpTo(ActivationVals, MaxLen))}

ReportInput(act, frc, t) == Input("generate_risk_report", NoTable, act, frc, t, FALSE, 70)

\* forces_df gives the time array; activations_df is another table
ReportInputs ==
  {ReportInput(("bflh_r" :> [k \in 1..Len(st[1]) |-> st[1][k][1]])
               @@ ("vaslat_r" :> [k \in 1..Len(st[1]) |-> st[1][k][2]]), NoTable, st[2]) :
      st \in OtherTable(SeqsUpTo(HQPairs, MaxLen))}
  \cup {ReportInput(NoTable, "gasmed_r" :> st[1], st[2]) :
      st \in SameTable(SeqsUpTo(ForceVals, MaxLen))}
  \cup {ReportInput("glmed1_r" :> st[1], NoTable, st[2]) :
      st \in OtherTable(SeqsUpTo(GluteVals, MaxLen))}
  \cup {ReportInput("recfem_r" :> st[1], NoTable, st[2]) :
      st \in OtherTable(SeqsUpTo(RectusVals, MaxLen))}

\* the two documented examples (knee valgus / varus series of the right knee)
ExampleInputs ==
  {MotionInput(("knee_valgus_r" :> <<1000, 2000, 11000, 12000, 13000, 2000, 1000>>)
               @@ ("knee_valgus_l" :> Constant(7, 0)),
               <<0, 1000, 2000, 3000, 4000, 5000, 6000>>),
   MotionInput(("knee_valgus_r" :> <<-20000, -5000, -15000>>)
               @@ ("knee_valgus_l" :> Constant(3, 0)),
               <<0, 1000, 2000>>)}

\* eight samples, so that the stance window (0..3) and the late-swing window
\* (6..7) hold more than one sample; runs 2..4 of low gluteus medius and
\* 4..7 of high rectus femoris activation cross the window boundaries
WindowInputs ==
  {ReportInput("glmed1_r" :> <<400, 104, 104, 104, 104, 400, 104, 104>>, NoTable,
               TimeArray(8, 0)),
   ReportInput("recfem_r" :> <<704, 400, 400, 400, 704, 704, 704, 704>>, NoTable,
               TimeArray(8, 0))}

Inputs ==
  MotionInputs \cup MuscleInputs \cup ReportInputs \cup ExampleInputs \cup WindowInputs

\* variant: the duration is rendered from end_time alone
RiskEntryDurationEnd(rule, period, start_time, end_time, peak) ==
  [RiskType |-> rule.name, column |-> rule.column, block |-> rule.block, Error |-> "",
   period |-> period, start_time |-> start_time, end_time |-> end_time,
   TimePeriod |-> <<Fmt2(start_time), Fmt2(end_time)>>,
   Duration |-> Fmt2(end_time),
   MeasuredValue |-> Fmt2(peak)]

\* variant: the duration is the difference of the rendered time stamps
RiskEntryRenderedDiff(rule, period, start_time, end_time, peak) ==
  [RiskType |-> rule.name, column |-> rule.column, block |-> rule.block, Error |-> "",
   period |-> period, start_time |-> start_time, end_time |-> end_time,
   TimePeriod |-> <<Fmt2(start_time), Fmt2(end_time)>>,
   Duration |-> Fmt2(end_time) - Fmt2(start_time),
   MeasuredValue |-> Fmt2(peak)]

\* ---------------------------------------------------------------- entries
\* One element of results['risks'] / risk_metrics.  period, start_time and
\* end_time are the locals the entry was rendered from; TimePeriod, Duration
\* and MeasuredValue are the rendered fields (hundredths).
RiskEntry(rule, period, start_time, end_time, peak) ==
  [RiskType |-> rule.name, column |-> rule.column, block |-> rule.block, Error |-> "",
   period |-> period, start_time |-> start_time, end_time |-> end_time,
   TimePeriod |-> <<Fmt2(start_time), Fmt2(end_time)>>,
   Duration |-> Fmt2(end_time - start_time),
   MeasuredValue |-> Fmt2(peak)]

\* the entry an except clause of extract_motion_risk appends
ErrorEntry(blk, e) ==
  [RiskType |-> "Analysis Error", column |-> "", block |-> blk, Error |-> e,
   period |-> <<>>, start_time |-> 0, end_time |-> 0,
   TimePeriod |-> <<0, 0>>, Duration |-> 0, MeasuredValue |-> 0]

NoSummary == [overall_risk_level |-> "", risk_count |-> -1]

\* what the caller holds while its first call runs: the arguments it passed
FirstCall(inp) == [n |-> 1, between |-> FALSE, input |-> inp, result |-> <<>>]

\* the other routines are not running
IdleObj == [pc |-> "idle", arg |-> <<>>, out |-> <<>>]
IdlePipe ==
  [pc |-> "idle", stage |-> 0, missing |-> {}, engine |-> 0, started |-> <<>>,
   all_results |-> <<>>, printed |-> "", file_written |-> FALSE,
   raised |-> "", returned |-> ""]
IdleIkRun ==
  [pc |-> "idle", verify_files |-> TRUE, setup |-> "ok", model_exists |-> TRUE,
   marker_exists |-> TRUE, engine |-> "ok", returned |-> "", raised |-> "",
   caller |-> ""]
NoPeaks == [max |-> NaN, min |-> NaN, max_time |-> NaN, min_time |-> NaN]
IdlePeaks ==
  [pc |-> "idle", routine |-> "", column |-> "", has_column |-> FALSE,
   series |-> <<>>, time |-> <<>>, body_weight |-> 70, torque |-> 0,
   joint_peaks |-> NoPeaks, risks |-> <<>>, warnings |-> <<>>, error |-> "",
   raised |-> "", readable |-> TRUE]
IdleGrf ==
  [pc |-> "idle", time |-> <<>>, foot_z |-> <<>>, has_marker |-> FALSE,
   in_contact |-> <<>>, i |-> 0, rows |-> <<>>, raised |-> ""]
\* track_id -1 stands for None; betas <<-1>> and ref <<>> for None
NoneId == -1
NoBetas == <<-1>>
NoRef == [given |-> FALSE, poses_width |-> 0, dmpls_rows |-> -1]
NoNpz == [trans_rows |-> -1, poses_rows |-> -1, dmpls_rows |-> -1, betas |-> <<>>]
IdlePhalp ==
  [pc |-> "idle", data |-> <<>>, track_id |-> 0, selected |-> NoneId,
   frames |-> <<>>, times |-> <<>>, trans |-> <<>>, poses |-> <<>>,
   betas |-> NoBetas, ref |-> NoRef, npz |-> NoNpz, raised |-> ""]

\* a routine is entered with the arguments inp
Started(inp) ==
  /\ routine = inp.routine
  /\ ik_table = inp.ik_table
  /\ activation_table = inp.activation_table
  /\ force_table = inp.force_table
  /\ time = inp.time
  /\ so_given = inp.so_given
  /\ body_weight = inp.body_weight
  /\ call = FirstCall(inp)
  /\ pass = NextRunnable(0, -1)
  /\ pc = IF pass > Len(Passes) THEN "summary" ELSE "enter"
  /\ vals = <<>>
  /\ risky_indices = <<>>
  /\ risk_periods = <<>>
  /\ current_period = <<>>
  /\ i = 0
  /\ p = 0
  /\ risks = <<>>
  /\ summary = NoSummary
  /\ raised = ""

Init ==
  /\ \E inp \in Inputs : Started(inp)
  /\ obj = IdleObj
  /\ pipe = IdlePipe
  /\ ik_run = IdleIkRun
  /\ grf = IdleGrf
  /\ peaks = IdlePeaks
  /\ phalp = IdlePhalp

\* no risk routine is running
NoInput == Input("", NoTable, NoTable, NoTable, <<>>, FALSE, 70)
IdleRoutine ==
  /\ routine = ""
  /\ ik_table = NoTable
  /\ activation_table = NoTable
  /\ force_table = NoTable
  /\ time = <<>>
  /\ so_given = FALSE
  /\ body_weight = 70
  /\ call = FirstCall(NoInput)
  /\ pass = 0
  /\ pc = "idle"
  /\ vals = <<>>
  /\ risky_indices = <<>>
  /\ risk_periods = <<>>
  /\ current_period = <<>>
  /\ i = 0
  /\ p = 0
  /\ risks = <<>>
  /\ summary = NoSummary
  /\ raised = ""

\* --------------------------------------------------------------- control
ps == Passes[pass]

ResetLocals ==
  /\ vals' = <<>>
  /\ risky_indices' = <<>>
  /\ risk_periods' = <<>>
  /\ current_period' = <<>>
  /\ i' = 0
  /\ p' = 0

\* control moves to pass k (or to the summary after the last pass)
GoTo(k) ==
  /\ pass' = k
  /\ pc' = IF k > Len(Passes) THEN "summary" ELSE "enter"
  /\ ResetLocals

\* An exception e inside a pass.  extract_motion_risk: the except clause of
\* the enclosing try block appends an error entry and the code after the
\* block goes on.  calculate_injury_risks has no handler: e reaches the
\* caller of generate_risk_report.
\* variant: after the error entry the routine goes on to the summary
ThrowToSummary(e) ==
  IF routine = "extract_motion_risk"
  THEN /\ risks' = Append(risks, ErrorEntry(ps.block, e))
       /\ GoTo(Len(Passes) + 1)
       /\ UNCHANGED <<summary, raised>>
  ELSE /\ raised' = e
       /\ pc' = "done"
       /\ UNCHANGED <<pass, vals, risky_indices, risk_periods, current_period,
                      i, p, risks, summary>>

Throw(e) ==
  IF routine = "extract_motion_risk"
  THEN /\ risks' = Append(risks, ErrorEntry(ps.block, e))
       /\ GoTo(NextRunnable(pass, ps.block))
       /\ UNCHANGED <<summary, raised>>
  ELSE /\ raised' = e
       /\ pc' = "done"
       /\ UNCHANGED <<pass, vals, risky_indices, risk_periods, current_period,
                      i, p, risks, summary>>

\* what reading the series of the pass raises ("" = nothing): with no row the
\* shoulder arrays are 1-D and r_shoulder[:,1] fails before any column is
\* read; a missing column fails in getDependentColumn; .iloc fails on a
\* window index beyond the series
EnterError ==
  LET w == Window(ps.window, Len(time), 0)
  IN CASE ps.column = "shoulder" /\ Len(time) = 0 -> "IndexError"
       [] ps.src = "ik" /\ ps.column \notin DOMAIN ik_table -> "KeyError"
       [] ps.src = "so" /\ ps.column \notin DOMAIN force_table -> "KeyError"
       [] ps.window # "all" /\ w # <<>> /\ Last0(w) >= Len(PassSeries(ps))
            -> "IndexError"
       [] OTHER -> ""

\* variant: the zero quadriceps activations are replaced in activations_df
\* itself (replace(..., inplace=True) on the caller's columns)
EnterPassInplace ==
  /\ pc = "enter"
  /\ EnterError = ""
  /\ vals' = PassSeries(ps)
  /\ risky_indices' = Where(ps.rule, ps.threshold, PassSeries(ps),
                            Window(ps.window, Len(time), Len(PassSeries(ps))))
  /\ pc' = "group"
  /\ activation_table' =
       IF ps.src # "hq" THEN activation_table
       ELSE [l \in DOMAIN activation_table |->
               IF l \notin QuadLabels THEN activation_table[l]
               ELSE [k \in 1..Len(activation_table[l]) |->
                       IF activation_table[l][k] = 0 THEN NaN
                       ELSE activation_table[l][k]]]
  /\ UNCHANGED <<routine, ik_table, force_table, time, so_given, body_weight,
                 others, pass, risk_periods, current_period, i, p, risks,
                 summary, raised>>

\* the series is read and thresholded: np.where(mask)[0]
EnterPass ==
  /\ pc = "enter"
  /\ EnterError = ""
  /\ vals' = PassSeries(ps)
  /\ risky_indices' = Where(ps.rule, ps.threshold, PassSeries(ps),
                            Window(ps.window, Len(time), Len(PassSeries(ps))))
  /\ pc' = "group"
  /\ UNCHANGED <<inputs, others, pass, risk_periods, current_period, i, p, risks,
                 summary, raised>>

EnterFail ==
  /\ pc = "enter"
  /\ EnterError # ""
  /\ Throw(EnterError)
  /\ UNCHANGED <<inputs, others>>

AfterReport(always) ==
  IF ps.plot = "always" \/ (always /\ ps.plot = "if_risky") THEN "plot" ELSE "next"

\* if len(risky_indices) > 0: ... is false
NoRisk ==
  /\ pc = "group"
  /\ Len(risky_indices) = 0
  /\ pc' = AfterReport(FALSE)
  /\ UNCHANGED <<inputs, others, pass, vals, risky_indices, risk_periods,
                 current_period, i, p, risks, summary, raised>>

\* risk_periods = []; current_period = [risky_indices[0]]
GroupStart ==
  /\ pc = "group"
  /\ Len(risky_indices) > 0
  /\ risk_periods' = <<>>
  /\ current_period' = <<At(risky_indices, 0)>>
  /\ i' = 1
  /\ pc' = "loop"
  /\ UNCHANGED <<inputs, others, pass, vals, risky_indices, p, risks, summary, raised>>

\* variants of the adjacency test of the grouping loop
AdjacentAnyLater(a, b) == b > a
AdjacentSame(a, b) == b = a
AdjacentWithin2(a, b) == b <= a + 2

\* loop body, then-branch: the index continues the current period
Adjacent(a, b) == b = a + 1

GroupExtend ==
  /\ pc = "loop"
  /\ i < Len(risky_indices)
  /\ Adjacent(At(risky_indices, i - 1), At(risky_indices, i))
  /\ current_period' = Append(current_period, At(risky_indices, i))
  /\ i' = i + 1
  /\ UNCHANGED <<inputs, others, pc, pass, vals, risky_indices, risk_periods, p, risks,
                 summary, raised>>

\* loop body, else-branch: the current period is closed, a new one starts
GroupSplit ==
  /\ pc = "loop"
  /\ i < Len(risky_indices)
  /\ ~Adjacent(At(risky_indices, i - 1), At(risky_indices, i))
  /\ risk_periods' = Append(risk_periods, current_period)
  /\ current_period' = <<At(risky_indices, i)>>
  /\ i' = i + 1
  /\ UNCHANGED <<inputs, others, pc, pass, vals, risky_indices, p, risks, summary, raised>>

\* variant: the last period is put in front of the list
GroupClosePrepend ==
  /\ pc = "loop"
  /\ i = Len(risky_indices)
  /\ risk_periods' = <<current_period>> \o risk_periods
  /\ p' = 0
  /\ pc' = "report"
  /\ UNCHANGED <<inputs, others, pass, vals, risky_indices, current_period, i, risks,
                 summary, raised>>

\* after the loop: risk_periods.append(current_period)
GroupClose ==
  /\ pc = "loop"
  /\ i = Len(risky_indices)
  /\ risk_periods' = Append(risk_periods, current_period)
  /\ p' = 0
  /\ pc' = "report"
  /\ UNCHANGED <<inputs, others, pass, vals, risky_indices, current_period, i, risks,
                 summary, raised>>

\* what rendering period number p raises ("" = nothing)
ReportError ==
  LET period == At(risk_periods, p)
  IN CASE At(period, 0) >= Len(time) \/ Last0(period) >= Len(time) -> "IndexError"
       [] ps.src = "so" /\ Last0(period) >= Len(force_table[ps.column]) -> "IndexError"
       [] OTHER -> ""

\* 'Risk Type' of the entry; the pelvic tilt section names the direction
RiskTypeOf(period) ==
  IF ps.name # "Pelvic Tilt" THEN ps
  ELSE [ps EXCEPT !.name = IF SeqSum(Take(vals, period)) > 0
                           THEN "Excessive Anterior Pelvic Tilt"
                           ELSE "Excessive Posterior Pelvic Tilt"]

\* for period in risk_periods: one entry is appended
ReportPeriod ==
  /\ pc = "report"
  /\ p < Len(risk_periods)
  /\ ReportError = ""
  /\ LET period == At(risk_periods, p)
         start_time == At(time, At(period, 0))
         end_time == At(time, Last0(period))
     IN risks' = Append(risks, RiskEntry(RiskTypeOf(period), period, start_time,
                                         end_time, PeakValue(ps.peak, vals, period)))
  /\ p' = p + 1
  /\ UNCHANGED <<inputs, others, pc, pass, vals, risky_indices, risk_periods,
                 current_period, i, summary, raised>>

ReportFail ==
  /\ pc = "report"
  /\ p < Len(risk_periods)
  /\ ReportError # ""
  /\ Throw(ReportError)
  /\ UNCHANGED <<inputs, others>>

ReportDone ==
  /\ pc = "report"
  /\ p = Len(risk_periods)
  /\ pc' = AfterReport(TRUE)
  /\ UNCHANGED <<inputs, others, pass, vals, risky_indices, risk_periods,
                 current_period, i, p, risks, summary, raised>>

\* what the plot and metrics code of the section raises: ax.plot(time, y)
\* needs equal lengths, np.max of an empty array has no value
PlotError ==
  CASE Len(vals) # Len(time) -> "ValueError"
    [] ps.src = "so" /\ Len(force_table[ps.column]) # Len(time) -> "ValueError"
    [] Len(vals) = 0 -> "ValueError"
    [] OTHER -> ""

PlotAndMetrics ==
  /\ pc = "plot"
  /\ PlotError = ""
  /\ pc' = "next"
  /\ UNCHANGED <<inputs, others, pass, vals, risky_indices, risk_periods,
                 current_period, i, p, risks, summary, raised>>

PlotFail ==
  /\ pc = "plot"
  /\ PlotError # ""
  /\ Throw(PlotError)
  /\ UNCHANGED <<inputs, others>>

NextPass ==
  /\ pc = "next"
  /\ GoTo(NextRunnable(pass, -1))
  /\ UNCHANGED <<inputs, others, risks, summary, raised>>

\* ---------------------------------------------------------------- summary
RECURSIVE TotalDuration(_)
TotalDuration(rs) ==
  IF rs = <<>> THEN 0 ELSE rs[1].Duration + TotalDuration(Tail(rs))

\* variant: the level is taken from the number of entries alone
RiskLevelCountOnly(n, total_duration) ==
  IF n > 5 THEN "High" ELSE IF n > 2 THEN "Moderate" ELSE "Low"

\* overall risk level from the number of entries and their rendered
\* durations (hundredths of a second)
RiskLevel(n, total_duration) ==
  IF n > 5 \/ total_duration > 200 THEN "High"
  ELSE IF n > 2 \/ total_duration > 100 THEN "Moderate"
  ELSE "Low"

valid_risks == SelectSeq(risks, LAMBDA r : r.Error = "")

Summarize(rs) ==
  IF rs = <<>> THEN [overall_risk_level |-> "Low", risk_count |-> 0]
  ELSE [overall_risk_level |-> RiskLevel(Len(rs), TotalDuration(rs)),
        risk_count |-> Len(rs)]

\* the summary is built and the routine returns; motion_duration_s reads
\* time[-1] (forces_df.index[-1])
SummaryOk ==
  /\ pc = "summary"
  /\ Len(time) > 0
  /\ summary' = Summarize(valid_risks)
  /\ pc' = "done"
  /\ UNCHANGED <<inputs, others, pass, vals, risky_indices, risk_periods,
                 current_period, i, p, risks, raised>>

\* time[-1] of an empty array: IndexError, outside every try block
SummaryFail ==
  /\ pc = "summary"
  /\ Len(time) = 0
  /\ raised' = "IndexError"
  /\ pc' = "done"
  /\ UNCHANGED <<inputs, others, pass, vals, risky_indices, risk_periods,
                 current_period, i, p, risks, summary>>

Next ==
  \/ EnterPass
  \/ EnterFail
  \/ NoRisk
  \/ GroupStart
  \/ GroupExtend
  \/ GroupSplit
  \/ GroupClose
  \/ ReportPeriod
  \/ ReportFail
  \/ ReportDone
  \/ PlotAndMetrics
  \/ PlotFail
  \/ NextPass
  \/ SummaryOk
  \/ SummaryFail

Spec == Init /\ [][Next]_vars

\* ---------------------------------------------------------- repeated calls
\* what a call hands back: the list of entries, or the exception
Result == [risks |-> risks, raised |-> raised]

\* variant: the list of entries outlives the call (a module-level list)
EnterKeepRisks(inp) ==
  /\ routine' = inp.routine
  /\ ik_table' = inp.ik_table
  /\ activation_table' = inp.activation_table
  /\ force_table' = inp.force_table
  /\ time' = inp.time
  /\ so_given' = inp.so_given
  /\ body_weight' = inp.body_weight
  /\ pass' = NextRunnable(0, -1)'
  /\ pc' = IF pass' > Len(Passes)' THEN "summary" ELSE "enter"
  /\ ResetLocals
  /\ risks' = risks
  /\ summary' = NoSummary
  /\ raised' = ""

\* the routine is entered with arguments inp: every name it uses is a local
\* bound at entry (results = {..., 'risks': []} / risk_metrics = [])
Enter(inp) ==
  /\ routine' = inp.routine
  /\ ik_table' = inp.ik_table
  /\ activation_table' = inp.activation_table
  /\ force_table' = inp.force_table
  /\ time' = inp.time
  /\ so_given' = inp.so_given
  /\ body_weight' = inp.body_weight
  /\ pass' = NextRunnable(0, -1)'
  /\ pc' = IF pass' > Len(Passes)' THEN "summary" ELSE "enter"
  /\ ResetLocals
  /\ risks' = <<>>
  /\ summary' = NoSummary
  /\ raised' = ""

\* arguments of a call made between two calls on the same arguments
BetweenInputs ==
  {MotionInput("pelvis_tilt" :> <<16000, 16000>>, TimeArray(2, 0)),
   ReportInput(NoTable, "gasmed_r" :> <<250004, 100000>>, TimeArray(2, 0))}

\* the first call has returned; the caller calls on other arguments
CallBetween ==
  /\ pc = "done"
  /\ call.n = 1
  /\ \E inp \in BetweenInputs : Enter(inp)
  /\ call' = [call EXCEPT !.n = 2, !.between = TRUE, !.result = Result]
  /\ UNCHANGED <<obj, pipe, ik_run, grf, peaks, phalp>>

\* the caller calls again on the arguments of its first call
CallAgain ==
  /\ pc = "done"
  /\ call.n \in {1, 2}
  /\ Enter(call.input)
  /\ call' = [call EXCEPT !.n = 3,
                          !.result = IF call.n = 1 THEN Result ELSE call.result]
  /\ UNCHANGED <<obj, pipe, ik_run, grf, peaks, phalp>>

NextCalls ==
  \/ Next
  \/ CallBetween
  \/ CallAgain

\* the first call is made on tables of at most CallLen rows
InitCalls ==
  /\ Init
  /\ Len(time) <= CallLen
  /\ \A l \in DOMAIN ik_table : Len(ik_table[l]) <= CallLen
  /\ \A l \in DOMAIN activation_table : Len(activation_table[l]) <= CallLen
  /\ \A l \in DOMAIN force_table : Len(force_table[l]) <= CallLen

SpecCalls == InitCalls /\ [][NextCalls]_vars
\* ------------------------------------------------ run_all_risk_assessments
\* the five assessments in the order of the statements of the try block,
\* named by the key each one stores in all_results
Assessments ==
  << "joint_angle_risk", "joint_force_torque_risk", "kinematic_injury_risk",
     "muscle_forces_risk", "posture_alignment_risk" >>

\* the file each assessment opens first
FileOf(k) ==
  CASE k = 1 -> "ik_file"
    [] k = 2 -> "sto_file"
    [] k = 3 -> "ik_file"
    [] k = 4 -> "setup_file_path"
    [] k = 5 -> "ik_file"

\* what the glue of assessment k fails with ("" = nothing): the os.path.exists
\* checks raise FileNotFoundError, the table constructors of the engine raise
\* RuntimeError
StageError(k) ==
  CASE FileOf(k) \in pipe.missing /\ k \in {1, 2, 4} -> "FileNotFoundError"
    [] FileOf(k) \in pipe.missing \/ pipe.engine = k -> "RuntimeError"
    [] OTHER -> ""

PipeInputs ==
  {[IdlePipe EXCEPT !.pc = "assess", !.stage = 1, !.missing = m, !.engine = e] :
     m \in SUBSET {"ik_file", "sto_file", "setup_file_path"}, e \in 0..5}

InitPipeline ==
  /\ IdleRoutine
  /\ pipe \in PipeInputs
  /\ obj = IdleObj
  /\ ik_run = IdleIkRun
  /\ grf = IdleGrf
  /\ peaks = IdlePeaks
  /\ phalp = IdlePhalp

\* where control goes after assessment k
AfterStage(k) == IF k = Len(Assessments) THEN "serialize" ELSE "assess"

\* an assessment completes and its result is stored under its key
RunAssessment ==
  /\ pipe.pc = "assess"
  /\ pipe.stage # 3
  /\ StageError(pipe.stage) = ""
  /\ pipe' = [pipe EXCEPT !.pc = AfterStage(pipe.stage),
                          !.stage = IF pipe.stage = Len(Assessments) THEN @ ELSE @ + 1,
                          !.started = Append(@, Assessments[pipe.stage]),
                          !.all_results = Append(@, [key |-> Assessments[pipe.stage],
                                                     error |-> ""])]
  /\ UNCHANGED <<risk_vars, phalp, obj, ik_run, grf, peaks>>

\* variant: each assessment has a try block of its own
AssessmentRaisesContinue ==
  /\ pipe.pc = "assess"
  /\ pipe.stage # 3
  /\ StageError(pipe.stage) # ""
  /\ pipe' = [pipe EXCEPT !.pc = AfterStage(pipe.stage),
                          !.stage = IF pipe.stage = Len(Assessments) THEN @ ELSE @ + 1,
                          !.started = Append(@, Assessments[pipe.stage]),
                          !.printed = StageError(pipe.stage)]
  /\ UNCHANGED <<risk_vars, phalp, obj, ik_run, grf, peaks>>

\* the glue of an assessment raises inside the try block: control leaves
\* the block for the except clause
AssessmentRaises ==
  /\ pipe.pc = "assess"
  /\ pipe.stage # 3
  /\ StageError(pipe.stage) # ""
  /\ pipe' = [pipe EXCEPT !.pc = "except",
                          !.started = Append(@, Assessments[pipe.stage]),
                          !.printed = StageError(pipe.stage)]
  /\ UNCHANGED <<risk_vars, phalp, obj, ik_run, grf, peaks>>

\* check_kinematic_injury_risk has a try block around its whole body: a
\* failure is stored in results['metadata']['error'] and the results are
\* returned
RunKinematic ==
  /\ pipe.pc = "assess"
  /\ pipe.stage = 3
  /\ pipe' = [pipe EXCEPT !.pc = AfterStage(pipe.stage),
                          !.stage = @ + 1,
                          !.started = Append(@, Assessments[pipe.stage]),
                          !.all_results = Append(@, [key |-> Assessments[pipe.stage],
                                                     error |-> StageError(pipe.stage)])]
  /\ UNCHANGED <<risk_vars, phalp, obj, ik_run, grf, peaks>>

\* remove_non_serializable(all_results); open(result_file, 'w'); json.dump
SerializeResults ==
  /\ pipe.pc = "serialize"
  /\ pipe' = [pipe EXCEPT !.pc = "return", !.file_written = TRUE]
  /\ UNCHANGED <<risk_vars, phalp, obj, ik_run, grf, peaks>>

\* except Exception as e: print(...); the function ends
ExceptPrint ==
  /\ pipe.pc = "except"
  /\ pipe' = [pipe EXCEPT !.pc = "return"]
  /\ UNCHANGED <<risk_vars, phalp, obj, ik_run, grf, peaks>>

\* the function has no return statement: the caller gets None
ReturnNone ==
  /\ pipe.pc = "return"
  /\ pipe' = [pipe EXCEPT !.pc = "returned", !.returned = "None"]
  /\ UNCHANGED <<risk_vars, phalp, obj, ik_run, grf, peaks>>

NextPipeline ==
  \/ RunAssessment
  \/ AssessmentRaises
  \/ RunKinematic
  \/ SerializeResults
  \/ ExceptPrint
  \/ ReturnNone

SpecPipeline == InitPipeline /\ [][NextPipeline]_vars

\* -------------------------------------------------- remove_non_serializable
\* Python objects: a matplotlib Figure, another scalar, a list, a dict
Figure == [kind |-> "Figure"]
Scalar(v) == [kind |-> "scalar", v |-> v]
List(items) == [kind |-> "list", items |-> items]
Dict(items) == [kind |-> "dict", items |-> items]

IsContainer(o) == o.kind \in {"dict", "list"}

\* s without its element number k (del obj[i], k = i + 1)
Delete(s, k) == SubSeq(s, 1, k - 1) \o SubSeq(s, k + 1, Len(s))

RECURSIVE remove_non_serializable(_)
RECURSIVE RemoveFromList(_, _)

\* for i, item in enumerate(obj): the iterator reads obj[i] of the list as
\* it is then, for i = 0, 1, ... while i < len(obj); del obj[i] moves the
\* rest of the list one place down under the iterator
RemoveFromList(items, k) ==
  IF k > Len(items) THEN items
  ELSE IF IsContainer(items[k])
       THEN RemoveFromList([items EXCEPT ![k] = remove_non_serializable(items[k])], k + 1)
       ELSE IF items[k] = Figure
            THEN RemoveFromList(Delete(items, k), k + 1)
            ELSE RemoveFromList(items, k + 1)

\* the object after the call (the function works in place and returns None);
\* the dict branch walks a copy of the items, list(obj.items())
remove_non_serializable(o) ==
  CASE o.kind = "dict" ->
         Dict([k \in {k \in DOMAIN o.items : o.items[k] # Figure} |->
                 IF IsContainer(o.items[k])
                 THEN remove_non_serializable(o.items[k]) ELSE o.items[k]])
    [] o.kind = "list" -> List(RemoveFromList(o.items, 1))
    [] OTHER -> o

\* objects handed to the function: lists and dicts of scalars, Figures and
\* small containers
Leaves == {Figure, Scalar(1), Scalar(2)}
Inner ==
  Leaves \cup {List(<<Figure, Figure>>), List(<<Scalar(1), Figure>>),
               Dict("fig" :> Figure @@ "n" :> Scalar(1))}
Objects ==
  {List(l) : l \in SeqsUpTo(Inner, ObjLen)}
  \cup {Dict(d) : d \in UNION {[K -> Inner] : K \in SUBSET {"a", "b"}}}

InitSerialize ==
  /\ IdleRoutine
  /\ obj \in {[pc |-> "call", arg |-> o, out |-> o] : o \in Objects}
  /\ pipe = IdlePipe
  /\ ik_run = IdleIkRun
  /\ grf = IdleGrf
  /\ peaks = IdlePeaks
  /\ phalp = IdlePhalp

\* remove_non_serializable(obj) runs and returns
RemoveNonSerializable ==
  /\ obj.pc = "call"
  /\ obj' = [obj EXCEPT !.pc = "returned", !.out = remove_non_serializable(obj.arg)]
  /\ UNCHANGED <<risk_vars, phalp, pipe, ik_run, grf, peaks>>

NextSerialize == RemoveNonSerializable

SpecSerialize == InitSerialize /\ [][NextSerialize]_vars

\* -------------------------------------------------- run_inverse_kinematics
\* setup: the setup file parses ("ok") or ET.parse raises ("unreadable");
\* engine: what the IK tool does: "ok" (run() returns true), "ctor_raises"
\* (InverseKinematicsTool(setup) raises), "run_raises", "run_false" (run()
\* returns false).  With a model or marker file missing the tool cannot
\* succeed.
IkInputs ==
  {r \in {[IdleIkRun EXCEPT !.pc = "verify", !.verify_files = v, !.setup = su,
                            !.model_exists = mo, !.marker_exists = ma,
                            !.engine = e] :
             v \in BOOLEAN, su \in {"ok", "unreadable"}, mo \in BOOLEAN,
             ma \in BOOLEAN,
             e \in {"ok", "ctor_raises", "run_raises", "run_false"}} :
     r.engine = "ok" => (r.model_exists /\ r.marker_exists /\ r.setup = "ok")}

InitIk ==
  /\ IdleRoutine
  /\ ik_run \in IkInputs
  /\ obj = IdleObj
  /\ pipe = IdlePipe
  /\ grf = IdleGrf
  /\ peaks = IdlePeaks
  /\ phalp = IdlePhalp

\* if verify_files: is false
SkipVerify ==
  /\ ik_run.pc = "verify"
  /\ ~ik_run.verify_files
  /\ ik_run' = [ik_run EXCEPT !.pc = "construct"]
  /\ UNCHANGED <<risk_vars, phalp, obj, pipe, grf, peaks>>

\* ET.parse(setup_file_path) raises, in front of the try block
VerifyRaises ==
  /\ ik_run.pc = "verify"
  /\ ik_run.verify_files
  /\ ik_run.setup = "unreadable"
  /\ ik_run' = [ik_run EXCEPT !.pc = "returned", !.raised = "ParseError"]
  /\ UNCHANGED <<risk_vars, phalp, obj, pipe, grf, peaks>>

\* if not os.path.exists(model_path) / (marker_path): return False
VerifyMissing ==
  /\ ik_run.pc = "verify"
  /\ ik_run.verify_files
  /\ ik_run.setup = "ok"
  /\ ~ik_run.model_exists \/ ~ik_run.marker_exists
  /\ ik_run' = [ik_run EXCEPT !.pc = "returned", !.returned = "False"]
  /\ UNCHANGED <<risk_vars, phalp, obj, pipe, grf, peaks>>

VerifyOk ==
  /\ ik_run.pc = "verify"
  /\ ik_run.verify_files
  /\ ik_run.setup = "ok"
  /\ ik_run.model_exists /\ ik_run.marker_exists
  /\ ik_run' = [ik_run EXCEPT !.pc = "construct"]
  /\ UNCHANGED <<risk_vars, phalp, obj, pipe, grf, peaks>>

\* inverse_kinematics_tool = osim.InverseKinematicsTool(setup_file_path)
\* and the prints of its configuration
ConstructTool ==
  /\ ik_run.pc = "construct"
  /\ ik_run.engine # "ctor_raises"
  /\ ik_run' = [ik_run EXCEPT !.pc = "run"]
  /\ UNCHANGED <<risk_vars, phalp, obj, pipe, grf, peaks>>

\* except Exception as e: return False
ConstructRaises ==
  /\ ik_run.pc = "construct"
  /\ ik_run.engine = "ctor_raises"
  /\ ik_run' = [ik_run EXCEPT !.pc = "returned", !.returned = "False"]
  /\ UNCHANGED <<risk_vars, phalp, obj, pipe, grf, peaks>>

\* result = inverse_kinematics_tool.run(); return True
RunTool ==
  /\ ik_run.pc = "run"
  /\ ik_run.engine # "run_raises"
  /\ ik_run' = [ik_run EXCEPT !.pc = "returned", !.returned = "True"]
  /\ UNCHANGED <<risk_vars, phalp, obj, pipe, grf, peaks>>

\* run() raises: except Exception as e: return False
RunRaises ==
  /\ ik_run.pc = "run"
  /\ ik_run.engine = "run_raises"
  /\ ik_run' = [ik_run EXCEPT !.pc = "returned", !.returned = "False"]
  /\ UNCHANGED <<risk_vars, phalp, obj, pipe, grf, peaks>>

\* run_ik_from_marker_file: if not success: raise RuntimeError, else the
\* path of the output file is returned
CallerChecks ==
  /\ ik_run.pc = "returned"
  /\ ik_run.verify_files
  /\ ik_run.raised = ""
  /\ ik_run' = [ik_run EXCEPT !.pc = "caller_done",
                              !.caller = IF ik_run.returned = "True"
                                         THEN "output_file" ELSE "RuntimeError"]
  /\ UNCHANGED <<risk_vars, phalp, obj, pipe, grf, peaks>>

NextIk ==
  \/ SkipVerify
  \/ VerifyRaises
  \/ VerifyMissing
  \/ VerifyOk
  \/ ConstructTool
  \/ ConstructRaises
  \/ RunTool
  \/ RunRaises
  \/ CallerChecks

SpecIk == InitIk /\ [][NextIk]_vars

\* --------------------------------------------------- generate_complete_grf
\* Heights are thousandths of a metre, times are ms.
grf_components == 18

\* np.percentile(x, 10) of a non-empty array (linear interpolation between
\* the order statistics around position 0.1 * (n - 1))
Percentile10(x) ==
  LET s == SortSeq(x, LAMBDA a, b : a < b)
      n == Len(x)
      lo == (n - 1) \div 10
      fr == (n - 1) % 10
  IN IF fr = 0 THEN s[lo + 1]
     ELSE s[lo + 1] + (fr * (s[lo + 2] - s[lo + 1])) \div 10

\* foot_z < np.percentile(foot_z, 10) + 0.02
ContactByHeight(foot_z) ==
  IF foot_z = <<>> THEN <<>>
  ELSE [k \in 1..Len(foot_z) |-> foot_z[k] < Percentile10(foot_z) + 20]

\* 0.4 <= (t % 1.0) <= 0.8
ContactByTime(t) ==
  [k \in 1..Len(t) |-> 400 <= t[k] % 1000 /\ t[k] % 1000 <= 800]

Reverse(s) == [k \in 1..Len(s) |-> s[Len(s) + 1 - k]]

\* np.argmax of a boolean array that is not empty: the index of the first
\* True, 0 when there is none
ArgMax(b) ==
  IF \E k \in 1..Len(b) : b[k]
  THEN (CHOOSE k \in 1..Len(b) : b[k] /\ \A j \in 1..(k - 1) : ~b[j]) - 1
  ELSE 0

Max2(a, b) == IF a > b THEN a ELSE b
Min2(a, b) == IF a < b THEN a ELSE b

\* lines 40-47 for the in-contact sample i (0-based), i > 0
ContactStart(b, k) == Max2(0, k - ArgMax(Reverse(SubSeq(b, 1, k))))
ContactEnd(b, k) == Min2(Len(b) - 1, k + ArgMax(SubSeq(b, k + 1, Len(b))))
ContactProgress(b, k) ==
  IF ContactEnd(b, k) # ContactStart(b, k)
  THEN ((k - ContactStart(b, k)) * 1000) \div (ContactEnd(b, k) - ContactStart(b, k))
  ELSE 0

\* one appended row: the time stamp, the phase it was built for and the
\* number of values in it (NaN values are replaced by 0.0 in line 102)
GrfRow(t, contact, progress) ==
  [t |-> t, contact |-> contact, contact_progress |-> progress,
   values |-> grf_components, has_nan |-> FALSE]

GrfTimes(n, t0) == [k \in 1..n |-> t0 + 300 * (k - 1)]

\* IK tables with the foot marker (heights 0, 1 and 10 cm) and without it
GrfInputs ==
  {[IdleGrf EXCEPT !.pc = "detect", !.time = GrfTimes(Len(z), 0), !.foot_z = z,
                   !.has_marker = TRUE] : z \in SeqsUpTo({0, 10, 100}, GrfLen)}
  \cup {[IdleGrf EXCEPT !.pc = "detect", !.time = GrfTimes(n, t0)] :
          n \in 0..GrfLen, t0 \in {0, 500}}

InitGrf ==
  /\ IdleRoutine
  /\ grf \in GrfInputs
  /\ obj = IdleObj
  /\ pipe = IdlePipe
  /\ ik_run = IdleIkRun
  /\ peaks = IdlePeaks
  /\ phalp = IdlePhalp

\* the try block of lines 21-27
DetectContact ==
  /\ grf.pc = "detect"
  /\ grf.has_marker
  /\ grf' = [grf EXCEPT !.pc = "loop", !.in_contact = ContactByHeight(grf.foot_z)]
  /\ UNCHANGED <<risk_vars, phalp, obj, pipe, ik_run, peaks>>

\* getDependentColumn(foot_marker) raises: the except clause of lines 28-34
DetectFallback ==
  /\ grf.pc = "detect"
  /\ ~grf.has_marker
  /\ grf' = [grf EXCEPT !.pc = "loop", !.in_contact = ContactByTime(grf.time)]
  /\ UNCHANGED <<risk_vars, phalp, obj, pipe, ik_run, peaks>>

\* loop body for a sample in contact; in_contact[:i] is not empty
ContactRow ==
  /\ grf.pc = "loop"
  /\ grf.i < Len(grf.time)
  /\ grf.in_contact[grf.i + 1]
  /\ grf.i > 0
  /\ grf' = [grf EXCEPT !.i = @ + 1,
                        !.rows = Append(@, GrfRow(grf.time[grf.i + 1], TRUE,
                                                  ContactProgress(grf.in_contact, grf.i)))]
  /\ UNCHANGED <<risk_vars, phalp, obj, pipe, ik_run, peaks>>

\* loop body for sample 0 in contact: np.argmax(in_contact[:0][::-1]) is
\* the argmax of an empty array, ValueError; no handler is around the loop
ContactFail ==
  /\ grf.pc = "loop"
  /\ grf.i < Len(grf.time)
  /\ grf.in_contact[grf.i + 1]
  /\ grf.i = 0
  /\ grf' = [grf EXCEPT !.pc = "returned", !.raised = "ValueError"]
  /\ UNCHANGED <<risk_vars, phalp, obj, pipe, ik_run, peaks>>

\* loop body for a sample in swing phase
SwingRow ==
  /\ grf.pc = "loop"
  /\ grf.i < Len(grf.time)
  /\ ~grf.in_contact[grf.i + 1]
  /\ grf' = [grf EXCEPT !.i = @ + 1,
                        !.rows = Append(@, GrfRow(grf.time[grf.i + 1], FALSE, 0))]
  /\ UNCHANGED <<risk_vars, phalp, obj, pipe, ik_run, peaks>>

\* return grf_data
ReturnTable ==
  /\ grf.pc = "loop"
  /\ grf.i = Len(grf.time)
  /\ grf' = [grf EXCEPT !.pc = "returned"]
  /\ UNCHANGED <<risk_vars, phalp, obj, pipe, ik_run, peaks>>

NextGrf ==
  \/ DetectContact
  \/ DetectFallback
  \/ ContactRow
  \/ ContactFail
  \/ SwingRow
  \/ ReturnTable

SpecGrf == InitGrf /\ [][NextGrf]_vars

\* ------------------------------------- get_joint_angles, check_joint_angles
\* np.rad2deg on thousandths (pi = 3.142); np.rad2deg(nan) is nan
Rad2Deg(x) ==
  IF x = NaN THEN NaN
  ELSE IF x >= 0 THEN (x * 180000) \div 3142 ELSE -(((-x) * 180000) \div 3142)

\* np.argmax / np.argmin: the first position (from 1) that holds v
FirstAt(s, v) == CHOOSE k \in 1..Len(s) : s[k] = v /\ \A j \in 1..(k - 1) : s[j] # v

\* peaks[joint] of get_joint_angles; the except clause of the joint (the
\* column is missing, or np.max of no sample) gives nan for all four
JointPeaks(has_column, series, t) ==
  IF ~has_column \/ series = <<>> THEN NoPeaks
  ELSE [max |-> SeqMax(series), min |-> SeqMin(series),
        max_time |-> t[FirstAt(series, SeqMax(series))],
        min_time |-> t[FirstAt(series, SeqMin(series))]]

JointRule(key, joint, stat, rule, thr, time_of, note) ==
  [key |-> key, joint |-> joint, stat |-> stat, rule |-> rule,
   threshold |-> thr, time_of |-> time_of, note |-> note]

\* the checks of check_joint_angles in the order of the code (degrees in
\* thousandths)
JointRules ==
  << JointRule("knee_angle_r_valgus", "knee_angle_r", "max", "gt", 10000, "max_time", ""),
     JointRule("knee_angle_r_flexion", "knee_angle_r", "min", "lt", 30000, "min_time", ""),
     JointRule("knee_angle_r_hyperextension", "knee_angle_r", "min", "lt", -5000, "min_time", ""),
     JointRule("knee_angle_l_valgus", "knee_angle_l", "max", "gt", 10000, "max_time", ""),
     JointRule("knee_angle_l_flexion", "knee_angle_l", "min", "lt", 30000, "min_time", ""),
     JointRule("knee_angle_l_hyperextension", "knee_angle_l", "min", "lt", -5000, "min_time", ""),
     JointRule("hip_flexion_r", "hip_adduction_r", "max", "gt", 90000, "max_time",
               "Requires torque >2 Nm/kg to confirm risk"),
     JointRule("hip_rotation_r", "hip_rotation_r", "absmax", "gt", 25000, "max_time", ""),
     JointRule("hip_flexion_l", "hip_adduction_l", "max", "gt", 90000, "max_time",
               "Requires torque >2 Nm/kg to confirm risk"),
     JointRule("hip_rotation_l", "hip_rotation_l", "absmax", "gt", 25000, "max_time", ""),
     JointRule("scapula_abduction_r", "scapula_abduction_r", "max", "gt", 90000, "max_time", ""),
     JointRule("scapula_upward_rot_r", "scapula_upward_rot_r", "max", "gt", 25000, "max_time", ""),
     JointRule("scapula_abduction_l", "scapula_abduction_l", "max", "gt", 90000, "max_time", ""),
     JointRule("scapula_upward_rot_l", "scapula_upward_rot_l", "max", "gt", 25000, "max_time", ""),
     JointRule("lumbar_bending", "lumbar_bending", "max", "gt", 45000, "max_time",
               "Requires asymmetric load >15% body weight to confirm risk") >>

\* the value a check compares, in degrees
JointStat(stat, pk) ==
  IF pk.max = NaN THEN NaN
  ELSE CASE stat = "max" -> Rad2Deg(pk.max)
         [] stat = "min" -> Rad2Deg(pk.min)
         [] stat = "absmax" -> Max2(Abs(Rad2Deg(pk.max)), Abs(Rad2Deg(pk.min)))

\* one value of the risks dict: 'value' and 'time' as rendered
PeakEntry(key, value, t, risky_times, note) ==
  [key |-> key, value |-> value, time |-> t, risky_times |-> risky_times,
   note |-> note]

JointEntry(r, pk) ==
  PeakEntry(r.key, Fmt1(JointStat(r.stat, pk)), Fmt2(pk[r.time_of]), <<>>, r.note)

\* the checks of joint that are violated, in the order of the code
ViolatedRules(joint, pk) ==
  SelectSeq(JointRules,
            LAMBDA r : r.joint = joint /\ Violates(r.rule, r.threshold, JointStat(r.stat, pk)))

\* variant: the hip flexion risk is reported only when the torque confirms
\* it (torque > 2 Nm/kg)
check_joint_angles_confirmed(joint, pk, bw, torque) ==
  LET v == SelectSeq(ViolatedRules(joint, pk),
                     LAMBDA r : r.joint \notin {"hip_adduction_r", "hip_adduction_l"}
                                \/ torque > 2000 * bw)
  IN [k \in 1..Len(v) |-> JointEntry(v[k], pk)]

\* check_joint_angles(joint_data, body_weight) for joint_data built from one
\* analysed joint; torque is the moment at the joint, which is no argument
check_joint_angles(joint, pk, bw, torque) ==
  LET v == ViolatedRules(joint, pk)
  IN [k \in 1..Len(v) |-> JointEntry(v[k], pk)]

\* radians (thousandths): -28.6, 5.7, 34.4 and 91.7 degrees
AngleRad == {-500, 100, 600, 1600}
JointColumns == {"knee_angle_r", "hip_adduction_r", "hip_rotation_l", "lumbar_bending"}

JointInputs ==
  {[IdlePeaks EXCEPT !.pc = "load", !.routine = "check_joint_angles",
                     !.column = c, !.has_column = TRUE, !.series = x,
                     !.time = TimeArray(Len(x), 0), !.body_weight = bw,
                     !.torque = tq] :
     c \in JointColumns, x \in SeqsUpTo(AngleRad, PeakLen), bw \in {60, 80},
     tq \in {0, 200000}}
  \cup {[IdlePeaks EXCEPT !.pc = "load", !.routine = "check_joint_angles",
                          !.column = c, !.time = TimeArray(2, 0)] :
          c \in JointColumns}

\* joint_data = get_joint_angles(ik_file, [column])
GetJointAngles ==
  /\ peaks.pc = "load"
  /\ peaks.routine = "check_joint_angles"
  /\ peaks' = [peaks EXCEPT !.pc = "check",
                            !.joint_peaks = JointPeaks(peaks.has_column, peaks.series,
                                                       peaks.time)]
  /\ UNCHANGED <<risk_vars, phalp, obj, pipe, ik_run, grf>>

\* injury_risks = check_joint_angles(joint_data, body_weight)
CheckJointAngles ==
  /\ peaks.pc = "check"
  /\ peaks.routine = "check_joint_angles"
  /\ peaks' = [peaks EXCEPT !.pc = "returned",
                            !.risks = check_joint_angles(peaks.column, peaks.joint_peaks,
                                                         peaks.body_weight, peaks.torque)]
  /\ UNCHANGED <<risk_vars, phalp, obj, pipe, ik_run, grf>>

\* ------------------------------------------ analyze_injury_risks_from_sto
NA == -1       \* details.get('time', 'N/A'): the entry has no time

\* the two checks, made for side r and then for side l; the shear check
\* reads the column pelvis_tz_force for both sides.  Thresholds:
\* 0.2 * body_weight * 9.81 N and 1.5 * body_weight Nm, in thousandths.
StoRules(bw) ==
  << [key |-> "knee_r_shear", column |-> "pelvis_tz_force", threshold |-> 1962 * bw],
     [key |-> "knee_r_rotation", column |-> "hip_rotation_r_moment", threshold |-> 1500 * bw],
     [key |-> "knee_l_shear", column |-> "pelvis_tz_force", threshold |-> 1962 * bw],
     [key |-> "knee_l_rotation", column |-> "hip_rotation_l_moment", threshold |-> 1500 * bw] >>

\* variant: the largest signed value instead of the largest magnitude
analyze_injury_risks_from_sto_signed(column, series, bw) ==
  LET v == SelectSeq(StoRules(bw),
                     LAMBDA r : r.column = column /\ SeqMax(series) > r.threshold)
  IN [k \in 1..Len(v) |->
        PeakEntry(v[k].key,
                  IF column = "pelvis_tz_force" THEN Fmt1(SeqMax(series))
                  ELSE Fmt2(SeqMax(series)),
                  NA, <<>>, "")]

\* the risks dict for a results table with one column: np.max(np.abs(x))
\* against the threshold; the force is rendered with one decimal, the
\* torque with two
analyze_injury_risks_from_sto(column, series, bw) ==
  LET v == SelectSeq(StoRules(bw),
                     LAMBDA r : r.column = column
                                /\ SeqMax(AbsSeq(series)) > r.threshold)
  IN [k \in 1..Len(v) |->
        PeakEntry(v[k].key,
                  IF column = "pelvis_tz_force" THEN Fmt1(SeqMax(AbsSeq(series)))
                  ELSE Fmt2(SeqMax(AbsSeq(series))),
                  NA, <<>>, "")]

ForceN == {-150000, 100000, 140000}
TorqueNm == {-120000, 50000, 110000}

StoInputs ==
  {[IdlePeaks EXCEPT !.pc = "load", !.routine = "analyze_injury_risks_from_sto",
                     !.column = "pelvis_tz_force", !.has_column = TRUE,
                     !.series = x, !.time = TimeArray(Len(x), 0)] :
     x \in SeqsUpTo(ForceN, PeakLen)}
  \cup {[IdlePeaks EXCEPT !.pc = "load", !.routine = "analyze_injury_risks_from_sto",
                          !.column = c, !.has_column = TRUE,
                          !.series = x, !.time = TimeArray(Len(x), 0)] :
          c \in {"hip_rotation_r_moment", "hip_rotation_l_moment"},
          x \in SeqsUpTo(TorqueNm, PeakLen)}

\* the table has rows: the risks dict is returned
AnalyzeSto ==
  /\ peaks.pc = "load"
  /\ peaks.routine = "analyze_injury_risks_from_sto"
  /\ peaks.series # <<>>
  /\ peaks' = [peaks EXCEPT !.pc = "returned",
                            !.risks = analyze_injury_risks_from_sto(
                                        peaks.column, peaks.series, peaks.body_weight)]
  /\ UNCHANGED <<risk_vars, phalp, obj, pipe, ik_run, grf>>

\* np.max of an empty array: ValueError, no handler in the function
AnalyzeStoFail ==
  /\ peaks.pc = "load"
  /\ peaks.routine = "analyze_injury_risks_from_sto"
  /\ peaks.series = <<>>
  /\ peaks' = [peaks EXCEPT !.pc = "returned", !.raised = "ValueError"]
  /\ UNCHANGED <<risk_vars, phalp, obj, pipe, ik_run, grf>>

\* -------------------------------------------- check_kinematic_injury_risk
\* np.gradient(f, t) for three or more samples: one-sided differences at
\* the two ends, the second-order formula for uneven spacing inside.  Time
\* stamps are multiples of 10 ms, so the divisors below are whole numbers;
\* the result is per second.
Gradient(f, t) ==
  [k \in 1..Len(f) |->
     IF k = 1 THEN ((f[2] - f[1]) * 100) \div ((t[2] - t[1]) \div 10)
     ELSE IF k = Len(f)
          THEN ((f[k] - f[k - 1]) * 100) \div ((t[k] - t[k - 1]) \div 10)
          ELSE LET hs == t[k] - t[k - 1]
                   hd == t[k + 1] - t[k]
               IN (hs * hs * (f[k + 1] - f[k]) + hd * hd * (f[k] - f[k - 1]))
                    \div ((hs * hd * (hd + hs)) \div 1000)]

\* the criteria in the order of the dict (deg/s and deg/s^2 in thousandths)
KinCriteria ==
  << [name |-> "Patellar Tendinopathy", coordinate |-> "knee_angle_r",
      measure |-> "velocity", threshold |-> 500000],
     [name |-> "Lumbar Shear Stress", coordinate |-> "pelvis_rotation",
      measure |-> "acceleration", threshold |-> 200000],
     [name |-> "UCL Tear Risk", coordinate |-> "shoulder_r_z",
      measure |-> "velocity", threshold |-> 3000000] >>

\* velocities or accelerations of compute_velocity_and_acceleration
Measure(measure, angles, t) ==
  IF measure = "velocity" THEN Gradient(angles, t)
  ELSE Gradient(Gradient(angles, t), t)

\* variant: the sign of the measure is kept
RECURSIVE RiskyTimesSigned(_, _, _)
RiskyTimesSigned(m, t, thr) ==
  IF m = <<>> THEN <<>>
  ELSE (IF m[1] > thr THEN <<t[1]>> ELSE <<>>) \o RiskyTimesSigned(Tail(m), Tail(t), thr)

\* time[np.where(np.abs(measure_values) > threshold)[0]].tolist()
RECURSIVE RiskyTimes(_, _, _)
RiskyTimes(m, t, thr) ==
  IF m = <<>> THEN <<>>
  ELSE (IF Abs(m[1]) > thr THEN <<t[1]>> ELSE <<>>) \o RiskyTimes(Tail(m), Tail(t), thr)

\* the loop over the criteria from criterion k on, for an IK file that has
\* the one coordinate column (or none); acc is the results so far.  A
\* criterion without its column is skipped with a warning; fewer than three
\* samples raise ValueError in compute_velocity_and_acceleration, which the
\* except clause around the loop records.
RECURSIVE KinLoop(_, _, _, _, _, _)
KinLoop(k, acc, column, has_column, angles, t) ==
  IF k > Len(KinCriteria) THEN acc
  ELSE LET c == KinCriteria[k]
       IN IF ~(has_column /\ c.coordinate = column)
          THEN KinLoop(k + 1, [acc EXCEPT !.warnings = Append(@, "Missing columns")],
                       column, has_column, angles, t)
          ELSE IF Len(angles) < 3
               THEN [acc EXCEPT !.error = "ValueError",
                                !.warnings = Append(@, "Processing failed")]
               ELSE LET m == Measure(c.measure, angles, t)
                        peak_value == SeqMax(AbsSeq(m))
                    IN IF peak_value > c.threshold
                       THEN KinLoop(k + 1,
                                    [acc EXCEPT !.risks = Append(@,
                                       PeakEntry(c.name, peak_value, NA,
                                                 RiskyTimes(m, t, c.threshold), ""))],
                                    column, has_column, angles, t)
                       ELSE KinLoop(k + 1, acc, column, has_column, angles, t)

KinTimes(n) == [k \in 1..n |-> 10 * (k - 1)]
KinAngles == {0, 6000, 40000}
KinColumns == {"knee_angle_r", "pelvis_rotation", "shoulder_r_z"}

KinInputs ==
  {[IdlePeaks EXCEPT !.pc = "load", !.routine = "check_kinematic_injury_risk",
                     !.column = c, !.has_column = TRUE, !.series = x,
                     !.time = KinTimes(Len(x))] :
     c \in KinColumns, x \in SeqsUpTo(KinAngles, PeakLen)}
  \cup {[IdlePeaks EXCEPT !.pc = "load", !.routine = "check_kinematic_injury_risk",
                          !.time = KinTimes(3)]}
  \cup {[IdlePeaks EXCEPT !.pc = "load", !.routine = "check_kinematic_injury_risk",
                          !.readable = FALSE]}

\* variant: the exception of a failed criterion leaves the function
CheckKinematicUncaught ==
  /\ peaks.pc = "load"
  /\ peaks.routine = "check_kinematic_injury_risk"
  /\ peaks.readable
  /\ LET res == KinLoop(1, [risks |-> <<>>, warnings |-> <<>>, error |-> ""],
                        peaks.column, peaks.has_column, peaks.series, peaks.time)
     IN peaks' = IF res.error # ""
                 THEN [peaks EXCEPT !.pc = "returned", !.raised = res.error]
                 ELSE [peaks EXCEPT !.pc = "returned", !.risks = res.risks,
                                    !.warnings = res.warnings]
  /\ UNCHANGED <<risk_vars, phalp, obj, pipe, ik_run, grf>>

\* the whole function for an IK file that Storage can read: it returns
\* results in every case
CheckKinematic ==
  /\ peaks.pc = "load"
  /\ peaks.routine = "check_kinematic_injury_risk"
  /\ peaks.readable
  /\ LET res == KinLoop(1, [risks |-> <<>>, warnings |-> <<>>, error |-> ""],
                        peaks.column, peaks.has_column, peaks.series, peaks.time)
     IN peaks' = [peaks EXCEPT !.pc = "returned", !.risks = res.risks,
                               !.warnings = res.warnings, !.error = res.error]
  /\ UNCHANGED <<risk_vars, phalp, obj, pipe, ik_run, grf>>

\* Storage(ik_mot_path) raises (no such file, not a storage file): the
\* except clause of lines 174-176 records it and results are returned
KinLoadFail ==
  /\ peaks.pc = "load"
  /\ peaks.routine = "check_kinematic_injury_risk"
  /\ ~peaks.readable
  /\ peaks' = [peaks EXCEPT !.pc = "returned", !.error = "RuntimeError",
                            !.warnings = <<"Processing failed">>]
  /\ UNCHANGED <<risk_vars, phalp, obj, pipe, ik_run, grf>>

InitPeaks ==
  /\ IdleRoutine
  /\ peaks \in JointInputs \cup StoInputs \cup KinInputs
  /\ phalp = IdlePhalp
  /\ obj = IdleObj
  /\ pipe = IdlePipe
  /\ ik_run = IdleIkRun
  /\ grf = IdleGrf

NextPeaks ==
  \/ GetJointAngles
  \/ CheckJointAngles
  \/ AnalyzeSto
  \/ AnalyzeStoFail
  \/ CheckKinematic
  \/ KinLoadFail

SpecPeaks == InitPeaks /\ [][NextPeaks]_vars

\* ----------------------------- extract_single_person_data (PHALP results)
\* data is the dict of frames in its key order; a frame is known by its
\* position.  time NoTime: the frame has no 'time'.  tracked_ids <<>>: the
\* key is missing or the list is empty.  smpl: frame_data['smpl'] holds the
\* pose parameters (global_orient, body_pose, betas) of every tracked id.
NoTime == -1
PhalpFrame(t, ids, smpl) == [time |-> t, tracked_ids |-> ids, smpl |-> smpl]
InIds(tid, ids) == \E k \in 1..Len(ids) : ids[k] = tid

\* keys of track_counts and the count of each (lines 58-67)
TrackIds(data) ==
  {tid \in 0..2 : \E k \in 1..Len(data) : InIds(tid, data[k].tracked_ids)}
track_counts(data, tid) ==
  Cardinality({<<k, j>> \in (1..Len(data)) \X (1..2) :
                 j <= Len(data[k].tracked_ids) /\ data[k].tracked_ids[j] = tid})
\* position of the key in track_counts: the order of first insertion
FirstSeen(data, tid) ==
  LET k == CHOOSE f \in 1..Len(data) :
             /\ InIds(tid, data[f].tracked_ids)
             /\ \A g \in 1..(f - 1) : ~InIds(tid, data[g].tracked_ids)
      j == CHOOSE q \in 1..Len(data[k].tracked_ids) : data[k].tracked_ids[q] = tid
  IN 10 * k + j
\* max(track_counts, key=track_counts.get): the first key with the most
MostFrames(data) ==
  CHOOSE tid \in TrackIds(data) :
    \A o \in TrackIds(data) :
       \/ track_counts(data, tid) > track_counts(data, o)
       \/ /\ track_counts(data, tid) = track_counts(data, o)
          /\ FirstSeen(data, tid) <= FirstSeen(data, o)

\* lines 72-85: the track that is extracted, NoneId when ValueError is raised
SelectTrack(data, track_id) ==
  IF track_id # NoneId /\ track_id \in TrackIds(data) THEN track_id
  ELSE IF TrackIds(data) # {} THEN MostFrames(data)
  ELSE NoneId

\* variant: the frames are never sorted
frames_in_key_order(data) == [k \in 1..Len(data) |-> k]

\* lines 88-92: sorted() is stable; a frame without 'time' raises KeyError
\* and the keys are used in the order of the dict
sorted_frames(data) ==
  IF \E k \in 1..Len(data) : data[k].time = NoTime
  THEN [k \in 1..Len(data) |-> k]
  ELSE SortSeq([k \in 1..Len(data) |-> k],
               LAMBDA a, b : \/ data[a].time < data[b].time
                             \/ (data[a].time = data[b].time /\ a < b))

\* lines 95-153: the loop over the sorted frames
extracted_data(data, tid) ==
  LET Holds(k) == InIds(tid, data[k].tracked_ids)
      HasPose(k) == data[k].smpl
      fr == SelectSeq(sorted_frames(data), Holds)
  IN [frames |-> fr,
      times |-> [k \in 1..Len(fr) |-> IF data[fr[k]].time = NoTime THEN 0
                                       ELSE data[fr[k]].time],
      trans |-> fr,
      poses |-> SelectSeq(fr, HasPose),
      betas |-> IF SelectSeq(fr, HasPose) # <<>> THEN [j \in 1..10 |-> 100 + j]
                ELSE NoBetas]

\* tracking results of up to PhalpLen frames with tracks 0 and 1, and the
\* requested track: none (auto_select), one that may be there, one that is not
PhalpFrames ==
  {PhalpFrame(t, ids, s) : t \in {NoTime, 10, 20},
                           ids \in {<<>>, <<0>>, <<1>>, <<0, 1>>}, s \in BOOLEAN}
\* two frames of track 0 stored later-first, and a frame without 'time'
UntimedFrameData ==
  << PhalpFrame(20, <<0>>, TRUE), PhalpFrame(10, <<0>>, TRUE),
     PhalpFrame(NoTime, <<>>, FALSE) >>
PhalpInputs ==
  {[IdlePhalp EXCEPT !.pc = "extract", !.data = d, !.track_id = tid] :
     d \in SeqsUpTo(PhalpFrames, PhalpLen) \cup {UntimedFrameData},
     tid \in {NoneId, 0, 2}}

\* extract_single_person_data returns (extracted_data, track_id)
ExtractSinglePerson ==
  /\ phalp.pc = "extract"
  /\ SelectTrack(phalp.data, phalp.track_id) # NoneId
  /\ LET tid == SelectTrack(phalp.data, phalp.track_id)
         ex == extracted_data(phalp.data, tid)
     IN phalp' = [phalp EXCEPT !.pc = "convert", !.selected = tid,
                               !.frames = ex.frames, !.times = ex.times,
                               !.trans = ex.trans, !.poses = ex.poses,
                               !.betas = ex.betas]
  /\ UNCHANGED <<risk_vars, obj, pipe, ik_run, grf, peaks>>

\* raise ValueError("No tracks found in the data"); main() has no handler
ExtractRaises ==
  /\ phalp.pc = "extract"
  /\ SelectTrack(phalp.data, phalp.track_id) = NoneId
  /\ phalp' = [phalp EXCEPT !.pc = "done", !.raised = "ValueError"]
  /\ UNCHANGED <<risk_vars, obj, pipe, ik_run, grf, peaks>>

\* ---------------------------------------------------- convert_to_npz_format
\* width of one extracted pose: 9 values of global_orient and 23 * 9 of
\* body_pose
pose_width == 216
betas_size == 16

\* the reference npz: poses_width 0 when it has no 'poses', dmpls_rows -1
\* when it has no 'dmpls'
Ref(w, d) == [given |-> TRUE, poses_width |-> w, dmpls_rows |-> d]
Refs == {NoRef} \cup {Ref(w, d) : w \in {0, 156, 216, 300}, d \in {-1, 0, 1, 5}}

\* variant: the extracted betas are passed on as they are
BetasAsFound(betas) ==
  IF betas = NoBetas THEN [j \in 1..betas_size |-> 0] ELSE betas

\* lines 179-183
Betas16(betas) ==
  [j \in 1..betas_size |->
     IF betas # NoBetas /\ j <= Len(betas) THEN betas[j] ELSE 0]

\* what the function raises for n frames and m poses
ConvertError(n, m, ref) ==
  CASE n = 0 -> "ValueError"
    [] ref.given /\ ref.poses_width > 0 /\ m = 0 -> "IndexError"
    [] ref.given /\ ref.poses_width > pose_width /\ m # n /\ m # 1 -> "ValueError"
    [] ref.given /\ ref.dmpls_rows = 0 -> "ZeroDivisionError"
    [] OTHER -> ""

\* rows of the returned arrays (lines 172-173, 201-217, 220-234)
convert_to_npz_format(ex, ref) ==
  LET n == Len(ex.frames)
      m == Len(ex.poses)
  IN [trans_rows |-> Len(ex.trans),
      poses_rows |-> IF ref.given /\ ref.poses_width > pose_width THEN n ELSE m,
      dmpls_rows |-> n,
      betas |-> Betas16(ex.betas)]

\* main() passes the extracted data on with the reference npz
ConvertToNpz ==
  /\ phalp.pc = "convert"
  /\ \E ref \in Refs :
       /\ ConvertError(Len(phalp.frames), Len(phalp.poses), ref) = ""
       /\ phalp' = [phalp EXCEPT !.pc = "done", !.ref = ref,
                                 !.npz = convert_to_npz_format(phalp, ref)]
  /\ UNCHANGED <<risk_vars, obj, pipe, ik_run, grf, peaks>>

ConvertRaises ==
  /\ phalp.pc = "convert"
  /\ \E ref \in Refs :
       /\ ConvertError(Len(phalp.frames), Len(phalp.poses), ref) # ""
       /\ phalp' = [phalp EXCEPT !.pc = "done", !.ref = ref,
                       !.raised = ConvertError(Len(phalp.frames), Len(phalp.poses), ref)]
  /\ UNCHANGED <<risk_vars, obj, pipe, ik_run, grf, peaks>>

InitPhalp ==
  /\ IdleRoutine
  /\ phalp \in PhalpInputs
  /\ obj = IdleObj
  /\ pipe = IdlePipe
  /\ ik_run = IdleIkRun
  /\ grf = IdleGrf
  /\ peaks = IdlePeaks

NextPhalp ==
  \/ ExtractSinglePerson
  \/ ExtractRaises
  \/ ConvertToNpz
  \/ ConvertRaises

SpecPhalp == InitPhalp /\ [][NextPhalp]_vars

\* convert_to_npz_format called on its own: n frames, poses for the first m
\* of them, and betas of k values (or None)
NpzInputs ==
  {[IdlePhalp EXCEPT !.pc = "convert", !.frames = [j \in 1..n |-> j],
                     !.times = [j \in 1..n |-> 10 * j],
                     !.trans = [j \in 1..n |-> j], !.poses = [j \in 1..m |-> j],
                     !.betas = b] :
     n \in 0..PhalpLen, m \in 0..PhalpLen,
     b \in {NoBetas} \cup {[j \in 1..k |-> 100 + j] : k \in {0, 10, 16, 17}}}

InitNpz ==
  /\ IdleRoutine
  /\ phalp \in {x \in NpzInputs : Len(x.poses) <= Len(x.frames)}
  /\ obj = IdleObj
  /\ pipe = IdlePipe
  /\ ik_run = IdleIkRun
  /\ grf = IdleGrf
  /\ peaks = IdlePeaks

NextNpz ==
  \/ ConvertToNpz
  \/ ConvertRaises

SpecNpz == InitNpz /\ [][NextNpz]_vars

\* ===================================================================
\* Properties
\* ===================================================================
\* The current pass has rendered all its periods (or found none): p counts
\* the entries it appended, which are the last p entries of risks.
PassFinished == pc \in {"plot", "next"}
PassEntries == SubSeq(risks, Len(risks) - p + 1, Len(risks))

\* index k is looked at by the current pass and its sample violates the rule
\* (the two windowed rules of calculate_injury_risks look at their window only)
WindowSet == {At(Window(ps.window, Len(time), Len(vals)), k - 1) :
                k \in 1..Len(Window(ps.window, Len(time), Len(vals)))}
InMask(k) == k \in WindowSet /\ Violates(ps.rule, ps.threshold, At(vals, k))
MaskSet == {k \in WindowSet : InMask(k)}
EntryRange(r) == At(r.period, 0)..Last0(r.period)

\* C1: when a pass has reported its periods, the union of the index ranges
\* of its entries is exactly the set of indices whose sample violates the
\* rule, so no entry covers an index where the predicate is false.
C1_UnionIsMask ==
  PassFinished =>
    UNION {EntryRange(PassEntries[e]) : e \in 1..Len(PassEntries)} = MaskSet

\* a pass reported a period although some looked-at sample did not violate
C1_Witness ==
  /\ PassFinished
  /\ Len(PassEntries) > 0
  /\ MaskSet # WindowSet
  /\ Cardinality(MaskSet) > 1

\* C2: periods are maximal: violating samples at adjacent indices lie in the
\* same entry, violating samples separated by a non-violating index lie in
\* different entries, and two entries of a pass never touch.
C2_Maximal ==
  PassFinished =>
    /\ \A k \in MaskSet : (k + 1) \in MaskSet =>
         \E e \in 1..Len(PassEntries) : {k, k + 1} \subseteq EntryRange(PassEntries[e])
    /\ \A j, k \in MaskSet :
         (\E f \in (j + 1)..(k - 1) : f \notin MaskSet) =>
           ~\E e \in 1..Len(PassEntries) : {j, k} \subseteq EntryRange(PassEntries[e])
    /\ \A e, f \in 1..Len(PassEntries) : e # f =>
         \A j \in EntryRange(PassEntries[e]), k \in EntryRange(PassEntries[f]) :
            k # j + 1

\* a pass reported a run of two or more samples and another run after a
\* non-violating sample
C2_Witness ==
  /\ PassFinished
  /\ Len(PassEntries) >= 2
  /\ \E e \in 1..Len(PassEntries) : Len(PassEntries[e].period) >= 2

\* C3: the entries of a pass are in ascending order and do not overlap: the
\* last index of an entry is below the first index of the next entry.
C3_Ordered ==
  PassFinished =>
    \A e \in 1..(Len(PassEntries) - 1) :
       Last0(PassEntries[e].period) < At(PassEntries[e + 1].period, 0)

C3_Witness ==
  /\ PassFinished
  /\ Len(PassEntries) >= 2
  /\ At(PassEntries[1].period, 0) < At(PassEntries[2].period, 0)

ValuesOf(r) == {At(vals, k) : k \in EntryRange(r)}
IsMax(m, S) == m \in S /\ \A v \in S : v <= m
IsMin(m, S) == m \in S /\ \A v \in S : v >= m
IsAbsMax(m, S) == m \in S /\ \A v \in S : Abs(v) <= Abs(m)

\* C4 (as claimed): the rendered peak of an entry is the maximum of its run
\* for a greater-than rule, the minimum for a less-than rule, and for a
\* magnitude rule the sample of greatest magnitude with its sign.
C4_PeakSignPreserved ==
  PassFinished =>
    \A e \in 1..Len(PassEntries) :
      LET r == PassEntries[e] IN
        \E m \in ValuesOf(r) :
          /\ r.MeasuredValue = Fmt2(m)
          /\ CASE ps.rule = "gt"  -> IsMax(m, ValuesOf(r))
               [] ps.rule = "lt"  -> IsMin(m, ValuesOf(r))
               [] ps.rule = "abs" -> IsAbsMax(m, ValuesOf(r))

\* C4 (amended): as above, but for a magnitude rule the rendered peak is the
\* greatest magnitude itself, a non-negative number: the sign is dropped.
C4_PeakMagnitude ==
  PassFinished =>
    \A e \in 1..Len(PassEntries) :
      LET r == PassEntries[e] IN
        \E m \in ValuesOf(r) :
          CASE ps.rule = "gt"  -> IsMax(m, ValuesOf(r)) /\ r.MeasuredValue = Fmt2(m)
            [] ps.rule = "lt"  -> IsMin(m, ValuesOf(r)) /\ r.MeasuredValue = Fmt2(m)
            [] ps.rule = "abs" -> IsAbsMax(m, ValuesOf(r)) /\ r.MeasuredValue = Fmt2(Abs(m))

\* a magnitude rule reported a run of several samples whose sample of
\* greatest magnitude is negative
C4_Witness ==
  /\ PassFinished
  /\ ps.rule = "abs"
  /\ \E e \in 1..Len(PassEntries) :
       /\ Len(PassEntries[e].period) >= 2
       /\ \E m \in ValuesOf(PassEntries[e]) :
            m < 0 /\ \A v \in ValuesOf(PassEntries[e]) : v # m => Abs(v) < Abs(m)

\* every series the routine reads has no sample
EmptyInput ==
  /\ Len(time) = 0
  /\ \A l \in DOMAIN ik_table : Len(ik_table[l]) = 0
  /\ \A l \in DOMAIN activation_table : Len(activation_table[l]) = 0
  /\ \A l \in DOMAIN force_table : Len(force_table[l]) = 0

\* an exception about the samples (not about a missing column) was recorded
\* in the results or reached the caller
DataErrors == {"IndexError", "ValueError"}
ErrorRecorded == \E e \in 1..Len(risks) : risks[e].Error \in DataErrors
ErrorSignalled == raised # "" \/ ErrorRecorded

\* C5 (as claimed): a routine run on zero-length series ends with no risk
\* period, raises nothing and records no error.
C5_EmptyInputNoError ==
  (pc = "done" /\ EmptyInput) =>
    /\ raised = ""
    /\ ~ErrorRecorded
    /\ valid_risks = <<>>

\* some series has another length than the time array
Mismatch ==
  \/ \E l \in DOMAIN ik_table : Len(ik_table[l]) # Len(time)
  \/ \E l \in DOMAIN activation_table : Len(activation_table[l]) # Len(time)
  \/ \E l \in DOMAIN force_table : Len(force_table[l]) # Len(time)

\* C6 (as claimed): when a value series and the time array differ in length
\* the routine signals an error and returns no risk period.
C6_MismatchSignalled ==
  (pc = "done" /\ Mismatch) =>
    /\ ErrorSignalled
    /\ valid_risks = <<>>

\* C7: a violating sample with no violating neighbour gives an entry of one
\* index with start_time = end_time and duration 0; a series of one sample
\* gives exactly that entry if the sample violates and no entry otherwise.
C7_SingleSample ==
  PassFinished =>
    /\ \A k \in MaskSet : ((k - 1) \notin MaskSet /\ (k + 1) \notin MaskSet) =>
         \E e \in 1..Len(PassEntries) :
            /\ PassEntries[e].period = <<k>>
            /\ PassEntries[e].start_time = PassEntries[e].end_time
            /\ PassEntries[e].TimePeriod[1] = PassEntries[e].TimePeriod[2]
            /\ PassEntries[e].Duration = 0
    /\ Len(vals) = 1 =>
         IF InMask(0)
         THEN Len(PassEntries) = 1 /\ PassEntries[1].period = <<0>>
              /\ PassEntries[1].Duration = 0
         ELSE PassEntries = <<>>

\* a lone violating sample at a time after 0 was reported
C7_Witness ==
  /\ PassFinished
  /\ \E e \in 1..Len(PassEntries) :
       Len(PassEntries[e].period) = 1 /\ PassEntries[e].start_time > 0

\* a series of one violating sample was reported
C7_WitnessOne ==
  PassFinished /\ Len(vals) = 1 /\ Len(PassEntries) = 1

\* C8: periods follow index adjacency, not time: violating samples at
\* consecutive indices share an entry whatever the time between them; an
\* entry starts at time[first index], ends at time[last index] and its
\* duration is end_time - start_time (rendered with two decimals).
C8_IndexAdjacency ==
  PassFinished =>
    /\ \A k \in MaskSet : (k + 1) \in MaskSet =>
         \E e \in 1..Len(PassEntries) : {k, k + 1} \subseteq EntryRange(PassEntries[e])
    /\ \A e \in 1..Len(PassEntries) :
         LET r == PassEntries[e] IN
           /\ r.start_time = At(time, At(r.period, 0))
           /\ r.end_time = At(time, Last0(r.period))
           /\ r.TimePeriod = <<Fmt2(r.start_time), Fmt2(r.end_time)>>
           /\ r.Duration = Fmt2(r.end_time - r.start_time)

\* an entry spans a dropped-sample gap and its two time stamps render to
\* hundredths whose difference is not the rendered duration
C8_Witness ==
  /\ PassFinished
  /\ \E e \in 1..Len(PassEntries) :
       /\ PassEntries[e].end_time - PassEntries[e].start_time >= 2 * HalfGap
       /\ Len(PassEntries[e].period) = 2
  /\ \E e \in 1..Len(PassEntries) :
       PassEntries[e].Duration # PassEntries[e].TimePeriod[2] - PassEntries[e].TimePeriod[1]

\* the rendered fields of an entry
Rendered(r) == <<r.TimePeriod[1], r.TimePeriod[2], r.Duration, r.MeasuredValue>>

Example1 ==
  /\ routine = "extract_motion_risk"
  /\ "knee_valgus_r" \in DOMAIN ik_table
  /\ ik_table["knee_valgus_r"] = <<1000, 2000, 11000, 12000, 13000, 2000, 1000>>
  /\ time = <<0, 1000, 2000, 3000, 4000, 5000, 6000>>

Example2 ==
  /\ routine = "extract_motion_risk"
  /\ "knee_valgus_r" \in DOMAIN ik_table
  /\ ik_table["knee_valgus_r"] = <<-20000, -5000, -15000>>
  /\ time = <<0, 1000, 2000>>

\* C9: values 1,2,11,12,13,2,1 at times 0..6 under v > 10 (the valgus rule)
\* give exactly one entry: start 2.00, end 4.00, duration 2.00, peak 13.00.
C9_Example ==
  (Example1 /\ PassFinished /\ ps.name = "Right Knee Valgus") =>
    /\ Len(PassEntries) = 1
    /\ Rendered(PassEntries[1]) = <<200, 400, 200, 1300>>

C9_Witness ==
  /\ Example1 /\ PassFinished /\ ps.name = "Right Knee Valgus"
  /\ Len(PassEntries) = 1

\* C10: values -20,-5,-15 at times 0,1,2 under the less-than rule (varus,
\* v < -8, which holds of the same samples as v < -10) give exactly two
\* entries in this order: (0.00, 0.00, 0.00, -20.00), (2.00, 2.00, 0.00, -15.00).
C10_Example ==
  (Example2 /\ PassFinished /\ ps.name = "Right Knee Varus") =>
    /\ Len(PassEntries) = 2
    /\ Rendered(PassEntries[1]) = <<0, 0, 0, -2000>>
    /\ Rendered(PassEntries[2]) = <<200, 200, 0, -1500>>

C10_Witness ==
  /\ Example2 /\ PassFinished /\ ps.name = "Right Knee Varus"
  /\ Len(PassEntries) = 2


\* C11: a call on the arguments of an earlier call hands back the same list
\* of entries (or the same exception) as the earlier call, whether or not
\* the routine was called on other arguments in between.
C11_SameResult ==
  (pc = "done" /\ call.n = 3) => Result = call.result

\* the repeated call reported two entries after a call on other arguments
C11_Witness ==
  /\ pc = "done"
  /\ call.n = 3
  /\ call.between
  /\ Len(risks) >= 2
  /\ Result = call.result


\* C12: while a routine computes its risk periods and after it has returned,
\* the tables and the time array hold what the caller passed, also when a
\* zero quadriceps activation was replaced before the ratio was taken.
C12_InputsUnchanged ==
  /\ ik_table = call.input.ik_table
  /\ activation_table = call.input.activation_table
  /\ force_table = call.input.force_table
  /\ time = call.input.time

\* the hamstring-quadriceps pass has reported on a ratio series in which a
\* zero quadriceps activation was replaced
C12_Witness ==
  /\ routine = "generate_risk_report"
  /\ PassFinished
  /\ ps.src = "hq"
  /\ \E k \in 1..Len(vals) : vals[k] = NaN
  /\ \E l \in DOMAIN activation_table \cap QuadLabels :
       \E k \in 1..Len(activation_table[l]) : activation_table[l][k] = 0
  /\ Len(PassEntries) > 0


\* no sample of any series a runnable pass reads violates the rule of the pass
SeriesViolates(q) ==
  \E k \in 1..Len(PassSeries(q)) :
     Violates(q.rule, q.threshold, PassSeries(q)[k])
NoViolation ==
  \A j \in 1..Len(Passes) :
     (Runnable(Passes[j]) /\ (Passes[j].src = "ik" => Passes[j].column \in DOMAIN ik_table))
       => ~SeriesViolates(Passes[j])

\* C13 (as claimed): when no sample of a monitored series violates its
\* threshold, the routine raises nothing, lists no risk and its summary
\* reports a risk count of 0 and the level 'Low'.
C13_NoViolationNoRisk ==
  (pc = "done" /\ NoViolation /\ ~Mismatch) =>
    /\ raised = ""
    /\ valid_risks = <<>>
    /\ summary = [overall_risk_level |-> "Low", risk_count |-> 0]


\* a failure of the glue happened during the run: an assessment raised, or
\* the kinematic assessment stored an error in its results
GlueFailed ==
  \/ pipe.printed # ""
  \/ \E k \in 1..Len(pipe.all_results) : pipe.all_results[k].error # ""

\* what a call of run_all_risk_assessments hands to its caller
Outcome == [raised |-> pipe.raised, returned |-> pipe.returned]
SuccessOutcome == [raised |-> "", returned |-> "None"]

\* C14 (as claimed): when the glue of an assessment failed during a run,
\* the caller of run_all_risk_assessments gets an outcome that differs from
\* the outcome of a successful run.
C14_FailurePropagates ==
  (pipe.pc = "returned" /\ GlueFailed) => Outcome # SuccessOutcome

\* C18: the assessments start in the order joint angle, joint force/torque,
\* kinematic, muscle, posture; the result file is written only when all
\* five have stored their result; when an assessment raises, no later
\* assessment starts and the result file is not written.
C18_OrderThenFile ==
  /\ pipe.started = SubSeq(Assessments, 1, Len(pipe.started))
  /\ \A k \in 1..Len(pipe.all_results) : pipe.all_results[k].key = Assessments[k]
  /\ pipe.file_written => Len(pipe.all_results) = Len(Assessments)
  /\ pipe.printed # "" =>
       /\ ~pipe.file_written
       /\ Len(pipe.started) = pipe.stage
       /\ Len(pipe.all_results) = pipe.stage - 1

\* the muscle assessment raised after three assessments had completed, and
\* the function has returned
C18_Witness ==
  /\ pipe.pc = "returned"
  /\ pipe.printed # ""
  /\ Len(pipe.started) = 4
  /\ Len(pipe.all_results) = 3
  /\ ~pipe.file_written


RECURSIVE HoldsFigure(_)
\* a Figure is a value of a dict or an element of a list somewhere inside o
HoldsFigure(o) ==
  CASE o.kind = "dict" ->
         \E k \in DOMAIN o.items : o.items[k] = Figure \/ HoldsFigure(o.items[k])
    [] o.kind = "list" ->
         \E k \in 1..Len(o.items) : o.items[k] = Figure \/ HoldsFigure(o.items[k])
    [] OTHER -> FALSE

RECURSIVE WithoutFigures(_)
\* o with every Figure taken out and every other entry kept, in order
WithoutFigures(o) ==
  CASE o.kind = "dict" ->
         Dict([k \in {k \in DOMAIN o.items : o.items[k] # Figure} |->
                 WithoutFigures(o.items[k])])
    [] o.kind = "list" ->
         LET kept == SelectSeq(o.items, LAMBDA x : x # Figure)
         IN List([k \in 1..Len(kept) |-> WithoutFigures(kept[k])])
    [] OTHER -> o

\* C17 (as claimed): after remove_non_serializable(obj) has returned, no
\* Figure is left as a value of a dict or an element of a list anywhere
\* inside obj, and every entry that is not a Figure is still there.
C17_NoFigureLeft ==
  obj.pc = "returned" =>
    /\ ~HoldsFigure(obj.out)
    /\ obj.out = WithoutFigures(obj.arg)


\* the inverse-kinematics run was successful: the tool was built and its
\* run() returned true
IkSuccessful == ik_run.engine = "ok"

\* C19 (as claimed): run_inverse_kinematics returns True when the run was
\* successful and False otherwise, in particular when a verified file is
\* missing, when the engine raises and when run() returns false.
C19_TrueIffSuccessful ==
  (ik_run.pc = "returned" /\ ik_run.raised = "") =>
    (ik_run.returned = "True" <=> IkSuccessful)


\* C20 (as claimed): generate_complete_grf returns a table with one row per
\* time sample, in time order, each row with 18 values and no NaN, for every
\* IK table and contact pattern.
C20_OneRowPerSample ==
  grf.pc = "returned" =>
    /\ grf.raised = ""
    /\ Len(grf.rows) = Len(grf.time)
    /\ \A k \in 1..Len(grf.rows) :
         /\ grf.rows[k].t = grf.time[k]
         /\ grf.rows[k].values = 18
         /\ ~grf.rows[k].has_nan


\* the rules the routine in peaks applies to its column, each with the mask
\* of the samples that violate it
SampleStat(stat, x) == IF stat = "absmax" THEN Abs(Rad2Deg(x)) ELSE Rad2Deg(x)
PeakMasks ==
  CASE peaks.routine = "check_joint_angles" ->
         {[key |-> JointRules[k].key,
           mask |-> [j \in 1..Len(peaks.series) |->
                       Violates(JointRules[k].rule, JointRules[k].threshold,
                                SampleStat(JointRules[k].stat, peaks.series[j]))]] :
            k \in {k \in 1..Len(JointRules) : JointRules[k].joint = peaks.column}}
    [] peaks.routine = "analyze_injury_risks_from_sto" ->
         {[key |-> StoRules(peaks.body_weight)[k].key,
           mask |-> [j \in 1..Len(peaks.series) |->
                       Abs(peaks.series[j]) > StoRules(peaks.body_weight)[k].threshold]] :
            k \in {k \in 1..4 : StoRules(peaks.body_weight)[k].column = peaks.column}}
    [] peaks.routine = "check_kinematic_injury_risk" ->
         {[key |-> KinCriteria[k].name,
           mask |-> [j \in 1..Len(peaks.series) |->
                       Abs(Measure(KinCriteria[k].measure, peaks.series, peaks.time)[j])
                         > KinCriteria[k].threshold]] :
            k \in {k \in 1..Len(KinCriteria) :
                     /\ KinCriteria[k].coordinate = peaks.column
                     /\ Len(peaks.series) >= 3}}
    [] OTHER -> {}

\* number of maximal runs of consecutive violating samples
NumRuns(mask) ==
  Cardinality({k \in 1..Len(mask) : mask[k] /\ (k = 1 \/ ~mask[k - 1])})
NumViolating(mask) == Cardinality({k \in 1..Len(mask) : mask[k]})
EntriesFor(key) == SelectSeq(peaks.risks, LAMBDA e : e.key = key)
PeaksReturned == peaks.pc = "returned" /\ peaks.error = "" /\ peaks.raised = ""

C16_HipFlexionAngleOnly ==
  (PeaksReturned /\ peaks.routine = "check_joint_angles"
     /\ peaks.column = "hip_adduction_r") =>
    IF peaks.has_column /\ peaks.series # <<>>
       /\ Rad2Deg(SeqMax(peaks.series)) > 90000
    THEN EntriesFor("hip_flexion_r") =
           << PeakEntry("hip_flexion_r", Fmt1(Rad2Deg(SeqMax(peaks.series))),
                        Fmt2(peaks.time[FirstAt(peaks.series, SeqMax(peaks.series))]),
                        <<>>, "Requires torque >2 Nm/kg to confirm risk") >>
    ELSE EntriesFor("hip_flexion_r") = <<>>

\* the hip flexion risk was reported although the torque at the joint is
\* not above 2 Nm/kg
C16_Witness ==
  /\ PeaksReturned
  /\ peaks.routine = "check_joint_angles"
  /\ Len(EntriesFor("hip_flexion_r")) = 1
  /\ peaks.torque <= 2000 * peaks.body_weight


\* the maximal contiguous in-contact run around sample k (0-based) of mask b
RunFirst(b, k) ==
  CHOOSE s \in 0..k : /\ \A j \in s..k : b[j + 1]
                      /\ (s = 0 \/ ~b[s])
RunLast(b, k) ==
  CHOOSE e \in k..(Len(b) - 1) : /\ \A j \in k..e : b[j + 1]
                                 /\ (e = Len(b) - 1 \/ ~b[e + 2])
NormalizedProgress(b, k) ==
  IF RunLast(b, k) = RunFirst(b, k) THEN 0
  ELSE ((k - RunFirst(b, k)) * 1000) \div (RunLast(b, k) - RunFirst(b, k))

\* C21 (as claimed): in generate_complete_grf the contact progress of an
\* in-contact sample i is (i - s)/(e - s) with s and e the first and last
\* index of the maximal in-contact run containing i (0 when e = s): 0 at the
\* run's first sample, 1 at its last, intermediate values in between.
C21_ProgressOverRun ==
  \A k \in 1..Len(grf.rows) :
    grf.rows[k].contact =>
      grf.rows[k].contact_progress = NormalizedProgress(grf.in_contact, k - 1)

\* inside a run the code's start and end both fall on the sample itself
C21_ProgressCollapses ==
  \A k \in 1..Len(grf.rows) :
    (k > 1 /\ grf.rows[k].contact /\ grf.in_contact[k - 1]) =>
      grf.rows[k].contact_progress = 0


\* the sum of the durations the entries report (hundredths of a second)
ReportedDuration(rs) == SeqSum([k \in 1..Len(rs) |-> rs[k].Duration])

\* C22: the summary classifies the overall risk level from the number n of
\* risk entries without an error and the sum d of their reported durations:
\* High iff n > 5 or d > 2.0 s, otherwise Moderate iff n > 2 or d > 1.0 s,
\* otherwise Low; risk_count is n.  Both extract_motion_risk and
\* summarize_injury_risks (called by generate_risk_report) do so.
C22_LevelFromCountAndDuration ==
  (pc = "done" /\ raised = "") =>
    LET n == Len(valid_risks)
        d == ReportedDuration(valid_risks)
        high == n > 5 \/ d > 200
        moderate == ~high /\ (n > 2 \/ d > 100)
    IN /\ summary.risk_count = n
       /\ summary.overall_risk_level = "High" <=> high
       /\ summary.overall_risk_level = "Moderate" <=> moderate
       /\ summary.overall_risk_level = "Low" <=> (~high /\ ~moderate)

\* a Moderate level that the durations alone decide
C22_Witness ==
  /\ pc = "done"
  /\ raised = ""
  /\ summary.overall_risk_level = "Moderate"
  /\ Len(valid_risks) <= 2
  /\ ReportedDuration(valid_risks) > 100


\* the windows of the two windowed rules, for n time samples
StanceWindow(n) == 0..((n \div 2) - 1)
LateSwingWindow(n) == ((3 * n) \div 4)..(n - 1)
ClaimedWindow ==
  IF ps.window = "first_half" THEN StanceWindow(Len(time))
  ELSE LateSwingWindow(Len(time))

\* C23: in calculate_injury_risks with n samples gluteus medius
\* underactivation is evaluated over indices 0 .. n//2 - 1 only and rectus
\* femoris overactivation over int(0.75 n) .. n - 1 only: no reported period
\* of either type holds an index outside its window, and a violating run
\* that crosses the window boundary is reported truncated at the boundary.
C23_WindowedRules ==
  (PassFinished /\ ps.window # "all") =>
    /\ \A e \in 1..Len(PassEntries) : EntryRange(PassEntries[e]) \subseteq ClaimedWindow
    /\ \A k \in ClaimedWindow :
         (k < Len(vals) /\ Violates(ps.rule, ps.threshold, At(vals, k))) =>
           \E e \in 1..Len(PassEntries) :
              LET r == EntryRange(PassEntries[e])
              IN /\ k \in r
                 /\ ((k - 1) \in ClaimedWindow /\ (k - 1) \notin r) =>
                      ~Violates(ps.rule, ps.threshold, At(vals, k - 1))
                 /\ ((k + 1) \in ClaimedWindow /\ (k + 1) \notin r /\ k + 1 < Len(vals)) =>
                      ~Violates(ps.rule, ps.threshold, At(vals, k + 1))

\* a run of violating samples that crosses the boundary of a window of two
\* or more samples was reported, cut at the boundary
C23_Witness ==
  /\ PassFinished
  /\ ps.window # "all"
  /\ Cardinality(ClaimedWindow) >= 2
  /\ \E e \in 1..Len(PassEntries) :
       LET r == EntryRange(PassEntries[e])
       IN /\ Cardinality(r) >= 2
          /\ \E k \in r : \E j \in {k - 1, k + 1} :
               /\ j \in 0..(Len(vals) - 1)
               /\ j \notin ClaimedWindow
               /\ Violates(ps.rule, ps.threshold, At(vals, j))


\* the step appends an entry with an 'Error' key
ErrorAppended ==
  /\ Len(risks') = Len(risks) + 1
  /\ risks'[Len(risks')].Error # ""
ErrorEntriesOf(blk) == {k \in 1..Len(risks) : risks[k].Error # "" /\ risks[k].block = blk}

\* what a step of extract_motion_risk does to risks and to the position
SectionStep ==
  routine = "extract_motion_risk" =>
    /\ ErrorAppended =>
         /\ SubSeq(risks', 1, Len(risks)) = risks
         /\ risks'[Len(risks')].block = ps.block
         /\ raised' = ""
         /\ pass' > pass
    /\ Len(risks') \in {Len(risks), Len(risks) + 1}
    /\ pass' # pass =>
         /\ pass' > pass
         /\ pass' <= Len(Passes) => (Runnable(Passes[pass']) /\ pc' = "enter")
         /\ \A j \in (pass + 1)..(pass' - 1) :
              Runnable(Passes[j]) => (ErrorAppended /\ Passes[j].block = ps.block)

\* C24: in extract_motion_risk an exception inside one analysis section
\* appends exactly one Analysis Error entry of that section and every later
\* section still runs (the only runnable passes that are skipped are the
\* rest of the failed section); entries with an 'Error' key are left out of
\* the summary, whose risk_count is the number of entries without one.
C24_SectionErrorsIsolated ==
  /\ [][SectionStep]_vars
  /\ [](routine = "extract_motion_risk" =>
          /\ \A b \in 1..5 : Cardinality(ErrorEntriesOf(b)) <= 1
          /\ (pc = "done" /\ raised = "") =>
                summary.risk_count =
                  Cardinality({k \in 1..Len(risks) : risks[k].Error = ""}))

\* the trunk lean section failed, a later section ran and reported, and
\* the summary counts the reported risks only
C24_Witness ==
  /\ routine = "extract_motion_risk"
  /\ pc = "done"
  /\ raised = ""
  /\ \E j, k \in 1..Len(risks) :
       /\ j < k
       /\ risks[j].Error # ""
       /\ risks[k].Error = ""
       /\ risks[k].block > risks[j].block
  /\ summary.risk_count = Len(risks) - 1


\* the criteria of check_kinematic_injury_risk whose column the file has
KinPresent == {k \in 1..Len(KinCriteria) :
                 peaks.has_column /\ KinCriteria[k].coordinate = peaks.column}
KinMissingBefore(n) == {k \in 1..n : k \notin KinPresent}
KinWarnings(w) == Cardinality({k \in 1..Len(peaks.warnings) : peaks.warnings[k] = w})
KinTooShort == KinPresent # {} /\ Len(peaks.series) < 3
KinEntries(k) ==
  {e \in 1..Len(peaks.risks) : peaks.risks[e].key = KinCriteria[k].name}

\* C25: check_kinematic_injury_risk always returns its results and never
\* raises.  A criterion whose column is missing is skipped with a 'Missing
\* columns' warning and the remaining criteria are still evaluated; an
\* exception while processing (an unreadable file, a series of fewer than
\* three samples) is put in metadata['error'] with a 'Processing failed'
\* warning, and what was collected before the failure is kept.
C25_AlwaysReturns ==
  (peaks.pc = "returned" /\ peaks.routine = "check_kinematic_injury_risk") =>
    /\ peaks.raised = ""
    /\ KinWarnings("Missing columns") + KinWarnings("Processing failed")
         = Len(peaks.warnings)
    /\ CASE ~peaks.readable ->
              /\ peaks.error # ""
              /\ peaks.warnings = <<"Processing failed">>
              /\ peaks.risks = <<>>
         [] peaks.readable /\ KinTooShort ->
              LET first == CHOOSE k \in KinPresent : \A j \in KinPresent : k <= j
              IN /\ peaks.error = "ValueError"
                 /\ KinWarnings("Missing columns") = Cardinality(KinMissingBefore(first))
                 /\ peaks.warnings[Len(peaks.warnings)] = "Processing failed"
                 /\ KinWarnings("Processing failed") = 1
                 /\ peaks.risks = <<>>
         [] OTHER ->
              /\ peaks.error = ""
              /\ KinWarnings("Processing failed") = 0
              /\ KinWarnings("Missing columns")
                   = Cardinality(KinMissingBefore(Len(KinCriteria)))
              /\ \A k \in 1..Len(KinCriteria) :
                   /\ k \notin KinPresent => KinEntries(k) = {}
                   /\ k \in KinPresent =>
                        (KinEntries(k) # {} <=>
                           \E j \in 1..Len(peaks.series) :
                              Abs(Measure(KinCriteria[k].measure, peaks.series,
                                          peaks.time)[j]) > KinCriteria[k].threshold)

\* a file with the last criterion's column only and too few samples: two
\* criteria were skipped and the third failed
C25_Witness ==
  /\ peaks.pc = "returned"
  /\ peaks.routine = "check_kinematic_injury_risk"
  /\ peaks.error = "ValueError"
  /\ peaks.warnings = <<"Missing columns", "Missing columns", "Processing failed">>


\* the criterion an entry of detected_risks was made for, and its measure
KinCriterionOf(e) ==
  KinCriteria[CHOOSE k \in 1..Len(KinCriteria) : KinCriteria[k].name = peaks.risks[e].key]
KinMeasureOf(e) == Measure(KinCriterionOf(e).measure, peaks.series, peaks.time)

\* C29: every entry of detected_risks of check_kinematic_injury_risk has a
\* risky_times list that is not empty, is in strictly ascending time order
\* and holds exactly the time points whose absolute velocity (acceleration)
\* is above the criterion's threshold; its measured_value is the maximum
\* absolute value of the measure and is above the threshold.
C29_RiskyTimesExact ==
  (peaks.pc = "returned" /\ peaks.routine = "check_kinematic_injury_risk") =>
    \A e \in 1..Len(peaks.risks) :
      LET rt == peaks.risks[e].risky_times
          m == KinMeasureOf(e)
          thr == KinCriterionOf(e).threshold
      IN /\ rt # <<>>
         /\ \A j \in 1..(Len(rt) - 1) : rt[j] < rt[j + 1]
         /\ {rt[j] : j \in 1..Len(rt)}
              = {peaks.time[j] : j \in {k \in 1..Len(m) : Abs(m[k]) > thr}}
         /\ \E j \in 1..Len(m) : peaks.risks[e].value = Abs(m[j])
         /\ \A j \in 1..Len(m) : Abs(m[j]) <= peaks.risks[e].value
         /\ peaks.risks[e].value > thr

\* an entry whose risky time points are not all the samples, with a sample
\* of negative velocity among them
C29_Witness ==
  /\ peaks.pc = "returned"
  /\ peaks.routine = "check_kinematic_injury_risk"
  /\ \E e \in 1..Len(peaks.risks) :
       /\ Len(peaks.risks[e].risky_times) >= 2
       /\ Len(peaks.risks[e].risky_times) < Len(peaks.series)
       /\ \E j \in 1..Len(peaks.series) :
            /\ KinMeasureOf(e)[j] < 0
            /\ Abs(KinMeasureOf(e)[j]) > KinCriterionOf(e).threshold


\* the frames of the tracking data that hold track tid
FramesWith(tid) ==
  {k \in 1..Len(phalp.data) : InIds(tid, phalp.data[k].tracked_ids)}
AnyTrack == \E tid \in 0..2 : FramesWith(tid) # {}
Extracted == phalp.pc = "convert"
ExtractFailed == phalp.pc = "done" /\ phalp.selected = NoneId

\* the track extract_single_person_data selects, and the frames it returns
C26_Selection ==
  /\ (phalp.pc # "extract" /\ ~AnyTrack) =>
        (ExtractFailed /\ phalp.raised = "ValueError")
  /\ ExtractFailed => ~AnyTrack
  /\ Extracted =>
       /\ (phalp.track_id # NoneId /\ FramesWith(phalp.track_id) # {}) =>
             phalp.selected = phalp.track_id
       /\ (phalp.track_id = NoneId \/ FramesWith(phalp.track_id) = {}) =>
             \A o \in 0..2 : Cardinality(FramesWith(phalp.selected))
                               >= Cardinality(FramesWith(o))
       /\ {phalp.frames[j] : j \in 1..Len(phalp.frames)} = FramesWith(phalp.selected)
       /\ Len(phalp.frames) = Cardinality(FramesWith(phalp.selected))

\* C26 (as claimed): extract_single_person_data returns one track: the
\* requested one when it is in some frame, otherwise the track in the most
\* frames, ValueError when no frame has a tracked id; the returned frames
\* are exactly the frames with the selected track, in ascending frame time.
C26_FramesByTime ==
  /\ C26_Selection
  /\ Extracted =>
       \A j \in 1..(Len(phalp.frames) - 1) :
          LET a == phalp.data[phalp.frames[j]].time
              b == phalp.data[phalp.frames[j + 1]].time
          IN (a # NoTime /\ b # NoTime) => a <= b

\* C26 (amended): the same selection and the same frames; they are in
\* ascending frame time when every frame of the data has a 'time', and in
\* the key order of the data as soon as one frame (of any track) has none.
C26_FramesByTimeOrKeyOrder ==
  /\ C26_Selection
  /\ Extracted =>
       \A j \in 1..(Len(phalp.frames) - 1) :
          IF \A k \in 1..Len(phalp.data) : phalp.data[k].time # NoTime
          THEN phalp.data[phalp.frames[j]].time <= phalp.data[phalp.frames[j + 1]].time
          ELSE phalp.frames[j] < phalp.frames[j + 1]

\* the requested track is in no frame, the track in the most frames was
\* taken instead and its frames were put in time order
C26_Witness ==
  /\ Extracted
  /\ phalp.track_id = 2
  /\ phalp.selected = 1
  /\ FramesWith(0) # {}
  /\ phalp.frames = <<2, 1>>


\* C27: convert_to_npz_format raises ValueError when the extracted data has
\* no frames, and whenever it returns, betas is a vector of exactly 16
\* values: the first min(k, 16) of the k extracted shape parameters followed
\* by zeros, all zeros when no betas were found.
C27_Betas16 ==
  phalp.pc = "done" =>
    /\ phalp.frames = <<>> => phalp.raised = "ValueError"
    /\ phalp.raised = "" =>
         /\ Len(phalp.npz.betas) = 16
         /\ \A j \in 1..16 :
              phalp.npz.betas[j] =
                IF phalp.betas # NoBetas /\ j <= Len(phalp.betas)
                THEN phalp.betas[j] ELSE 0

\* seventeen extracted shape parameters were cut to sixteen
C27_Witness ==
  /\ phalp.pc = "done"
  /\ phalp.raised = ""
  /\ Len(phalp.betas) = 17
  /\ phalp.npz.betas[16] = phalp.betas[16]


\* C28 (as claimed): the per-frame outputs of the PHALP conversion stay
\* aligned: after extract_single_person_data frames, times, trans and poses
\* have the same length, also for frames without SMPL pose data, and after
\* convert_to_npz_format trans, poses and dmpls all have num_frames rows.
C28_Aligned ==
  /\ Extracted =>
       /\ Len(phalp.times) = Len(phalp.frames)
       /\ Len(phalp.trans) = Len(phalp.frames)
       /\ Len(phalp.poses) = Len(phalp.frames)
  /\ (phalp.pc = "done" /\ phalp.raised = "") =>
       /\ phalp.npz.trans_rows = Len(phalp.frames)
       /\ phalp.npz.poses_rows = Len(phalp.frames)
       /\ phalp.npz.dmpls_rows = Len(phalp.frames)

\* what does hold: times and trans follow the frames, poses has one row per
\* frame that carries SMPL data; dmpls and trans have num_frames rows
C28_AlignedButPoses ==
  /\ Extracted =>
       /\ Len(phalp.times) = Len(phalp.frames)
       /\ Len(phalp.trans) = Len(phalp.frames)
       /\ Len(phalp.poses) =
            Cardinality({j \in 1..Len(phalp.frames) : phalp.data[phalp.frames[j]].smpl})
  /\ (phalp.pc = "done" /\ phalp.raised = "") =>
       /\ phalp.npz.trans_rows = Len(phalp.frames)
       /\ phalp.npz.dmpls_rows = Len(phalp.frames)
       /\ phalp.npz.poses_rows \in {Len(phalp.poses), Len(phalp.frames)}

====
